---- MODULE Spec2Model ----
(***************************************************************************)
(* A model of libuuid7 (src/uuid7.c): the bit packing of uuid7_next, the   *)
(* compare-and-advance step against the Last-Issued State uuid7_last, the  *)
(* generator uuid7 with its time and randomness sources, and uuid7_reset.  *)
(*                                                                         *)
(* A 16-byte buffer is a sequence of 16 numbers in 0..255; C byte i is     *)
(* element i+1 of the sequence.                                            *)
(***************************************************************************)
EXTENDS Integers, Sequences, FiniteSets, TLC

VARIABLES
    mode,               \* the build: "mutex", "thread_local" or "no_threads"
    uuid7_mutex_initd,  \* static bool uuid7_mutex_initd
    uuid7_mutex,        \* the thread holding uuid7_mutex, 0 when it is free
    uuid7_last,         \* the Last-Issued State of every scope
    uuid7_last_addr,    \* (uintptr_t) uuid7_last, per thread
    pc,                 \* where every thread is in uuid7 / uuid7_reset
    ts,                 \* uuid7: struct timespec ts
    time_rc,            \* uuid7: what uuid7_clock_gettime returned
    random_bytes,       \* uuid7: uint64_t random_bytes
    rndbytes,           \* uuid7: ssize_t rndbytes
    ubuf,               \* the caller's 16-byte output buffer
    cmp,                \* uuid7_next: int cmp
    success,            \* uuid7_next: int success
    rv,                 \* what the call returned: "NULL" or "ubuf"
    outcome,            \* history: the exit the current call took
    prev,               \* history: the exit the thread's previous call took
    visited,            \* history: the steps the current call has taken
    streak,             \* history: per scope, the calls (at most 257 counted)
                        \* that encoded the scope's present prefix
    last_at_call,       \* history: the scope's uuid7_last when the call began
    issued_max,         \* history: per scope, the greatest identifier
                        \* returned since the scope was last zeroed
    segment,            \* harness: the uint16_t segment passed to uuid7_next
    last_issued,        \* harness: the uint8_t last[16] passed to uuid7_next
    parts,              \* harness: struct uuid7 u, filled by uuid7_parts
    parts_rv,           \* what uuid7_parts returned: "NULL" or "u"
    buf,                \* harness: the char buf[] given to uuid7_to_string
    buf_size,           \* the buf_size given to uuid7_to_string
    str_rv,             \* what uuid7_to_string returned: "NULL" or "buf"
    earlier,            \* harness: the struct timespec given to the call of
                        \* uuid7_next before the present one
    budget              \* per thread, the calls it may still begin; a
                        \* negative budget is never used up

vars == <<mode, uuid7_mutex_initd, uuid7_mutex, uuid7_last, uuid7_last_addr,
          pc, ts, time_rc, random_bytes, rndbytes, ubuf, cmp, success, rv,
          outcome, prev, visited, streak, last_at_call, issued_max,
          segment, last_issued, parts, parts_rv, buf, buf_size, str_rv,
          earlier, budget>>

\* The variables of the callers of uuid7_next, uuid7_parts and
\* uuid7_to_string (check_parts, check_to_string).
codec ==
    <<segment, last_issued, parts, parts_rv, buf, buf_size, str_rv, earlier>>

(***************************************************************************)
(* Program constants.                                                      *)
(***************************************************************************)
uuid7_version == 7

uuid7_variant == 1

Modes == {"mutex", "thread_local", "no_threads"}

Threads == {1, 2}

\* The one thread of the sequential specification.
MainThread == CHOOSE t \in Threads : \A o \in Threads : t <= o

\* Scope 0 is the single static uuid7_last of the mutex and no-threads
\* builds; scope t is the thread_local uuid7_last of thread t.
Scopes == {0} \cup Threads

\* Mutant: the thread_local is missing, all threads share one state.
Scope_shared(t) == 0

Scope(t) == IF mode = "thread_local" THEN t ELSE 0

Byte == 0..255

Zero16 == [i \in 1..16 |-> 0]

\* What a caller's buffer holds before the call: memset(ubuf, '?', 16).
Junk16 == [i \in 1..16 |-> 63]

\* A 64-bit quantity (time_t tv_sec, uint64_t random_bytes, uintptr_t) is the
\* sequence of its 8 value bytes, least significant first: TLC's integers
\* are 32 bits wide.  W64(n) is the 64-bit quantity of a number below 2^31.
W64(n) == [i \in 1..8 |-> IF i <= 4 THEN (n \div (256 ^ (i - 1))) % 256 ELSE 0]

NoTime == [tv_sec |-> W64(0), tv_nsec |-> 0]

NoRandom == W64(0)

(***************************************************************************)
(* Inputs.                                                                 *)
(***************************************************************************)
\* Values the time source can deliver: the epoch, and two instants of one
\* second that differ only in the low 6 bits of the nanoseconds.
Times ==
    { [tv_sec |-> W64(0),          tv_nsec |-> 0],
      [tv_sec |-> W64(1711030306), tv_nsec |-> 999999936],
      [tv_sec |-> W64(1711030306), tv_nsec |-> 999999999] }

\* 64-bit values the randomness source can deliver: 0x0000000100000100 and
\* 0xFFFF010000000001.  Bits 32..47 and bits 0..31 differ, in opposite
\* directions.
Randoms ==
    { <<0, 1, 0, 0, 1, 0, 0, 0>>,
      <<1, 0, 0, 0, 0, 1, 255, 255>> }

\* Return values of uuid7_clock_gettime: success, the error of the C
\* library, the error of the test's bogus clock.
TimeReturns == {0, -1, 1}

\* Return values of uuid7_getrandom: an error, short reads, the full read.
RndReturns == {-1, 0, 4, 8}

\* The address of each thread's uuid7_last: 0x00007F3A12C456F0 and
\* 0x000055D0A1B2C3D0.
LastAddr ==
    [t \in Threads |->
        IF t = 1 THEN <<240, 86, 196, 18, 58, 127, 0, 0>>
        ELSE <<208, 195, 178, 161, 208, 85, 0, 0>>]

(***************************************************************************)
(* Bit arithmetic.                                                         *)
(***************************************************************************)
\* (x >> shift) & (2^width - 1): a mask of width bits followed by a shift.
Bits(x, shift, width) == (x \div (2 ^ shift)) % (2 ^ width)

\* memcmp(a, b, n): the sign of the first difference in the first n bytes.
memcmp(a, b, n) ==
    IF \A i \in 1..n : a[i] = b[i]
    THEN 0
    ELSE LET k == CHOOSE i \in 1..n :
                     /\ a[i] # b[i]
                     /\ \A j \in 1..(i - 1) : a[j] = b[j]
         IN  IF a[k] < b[k] THEN -1 ELSE 1

\* Bit i of a 64-bit quantity.
BitW(x, i) == (x[(i \div 8) + 1] \div (2 ^ (i % 8))) % 2

\* (x >> shift) & (2^width - 1) of a 64-bit quantity, width <= 16.
RECURSIVE BitsW(_, _, _)
BitsW(x, shift, width) ==
    IF width = 0 THEN 0
    ELSE BitW(x, shift) + 2 * BitsW(x, shift + 1, width - 1)

\* a ^ b on 16-bit values.
RECURSIVE Xor16(_, _, _)
Xor16(a, b, n) ==
    IF n = 0 THEN 0
    ELSE ((a + b) % 2) + 2 * Xor16(a \div 2, b \div 2, n - 1)

(***************************************************************************)
(* uuid7_next, first half: the bit packing of the candidate.               *)
(***************************************************************************)
\* Mutant: only 32 bits of the seconds are kept.
seconds_low32(tp) == [i \in 1..8 |-> IF i <= 4 THEN tp.tv_sec[i] ELSE 0]

\* uint64_t seconds = ((uint64_t)ts.tv_sec) & 0x0000000FFFFFFFFF
seconds(tp) ==
    [i \in 1..8 |-> IF i <= 4 THEN tp.tv_sec[i]
                    ELSE IF i = 5 THEN tp.tv_sec[5] % 16
                    ELSE 0]

\* Mutant: the shift is one bit short.
hifrac_shifted(tp) == Bits(tp.tv_nsec, 17, 12)

\* uint16_t hifrac = (((uint32_t)ts.tv_nsec) & 0x3FFC0000) >> 18
hifrac(tp) == Bits(tp.tv_nsec, 18, 12)

\* Mutant: the mask is taken without the shift.
lofrac_low(tp) == Bits(tp.tv_nsec, 0, 12)

\* uint16_t lofrac = (((uint32_t)ts.tv_nsec) & 0x0003FFC0) >> 6
lofrac(tp) == Bits(tp.tv_nsec, 6, 12)

\* uint8_t hiseq = ts.tv_nsec & 0x3F
hiseq(tp) == Bits(tp.tv_nsec, 0, 6)

\* uint32_t rand32 = 0xFFFFFFFF & random_bytes
rand32(rb) == [i \in 1..8 |-> IF i <= 4 THEN rb[i] ELSE 0]

\* Mutant: the version is left in the low nibble.
Byte6_unshifted(lf) == Bits(uuid7_version, 0, 4) + (Bits(lf, 8, 4) * 16)

\* ubuf[6] = ((uuid7_version & 0x0F) << 4) | ((lofrac & 0x0F00) >> 8)
Byte6(lf) == (Bits(uuid7_version, 0, 4) * 16) + Bits(lf, 8, 4)

\* ubuf[8] = ((uuid7_variant & 0x03) << 6) | hiseq
Byte8(hs) == (Bits(uuid7_variant, 0, 2) * 64) + hs

\* ubuf[0] .. ubuf[15] as uuid7_next fills them before the comparison.
Encode(tp, seg, rnd) ==
    << BitsW(seconds(tp), 28, 8),
       BitsW(seconds(tp), 20, 8),
       BitsW(seconds(tp), 12, 8),
       BitsW(seconds(tp), 4, 8),
       (BitsW(seconds(tp), 0, 4) * 16) + Bits(hifrac(tp), 8, 4),
       Bits(hifrac(tp), 0, 8),
       Byte6(lofrac(tp)),
       Bits(lofrac(tp), 0, 8),
       Byte8(hiseq(tp)),
       0,
       Bits(seg, 8, 8),
       Bits(seg, 0, 8),
       BitsW(rnd, 0, 8),
       BitsW(rnd, 8, 8),
       BitsW(rnd, 16, 8),
       BitsW(rnd, 24, 8) >>

(***************************************************************************)
(* uuid7: the segment of each build.                                       *)
(***************************************************************************)
\* sizeof(uintptr_t) of the modelled platform.
SizeofUintptr == 8

\* segment = segment ^ (((uintptr_t) uuid7_last) >> (16 * i)),
\* for i = from .. (sizeof(uintptr_t) / 2) - 1, kept in a uint16_t.
RECURSIVE AddrFold(_, _, _)
AddrFold(addr, i, acc) ==
    IF i >= SizeofUintptr \div 2 THEN acc
    ELSE AddrFold(addr, i + 1, Xor16(acc, BitsW(addr, 16 * i, 16), 16))

\* Mutant: every build takes the segment from the random draw.
SegmentOf_random(m, rb, addr) == BitsW(rb, 32, 16)

\* Mutant: the random builds take the segment from bits 16..31 of the draw,
\* which the random tail also stores.
SegmentOf_low(m, rb, addr) ==
    IF m = "thread_local" THEN AddrFold(addr, 1, 0)
    ELSE BitsW(rb, 16, 16)

\* uint16_t segment, as each build of uuid7 computes it.
SegmentOf(m, rb, addr) ==
    IF m = "thread_local" THEN AddrFold(addr, 1, 0)
    ELSE BitsW(rb, 32, 16)

(***************************************************************************)
(* uuid7_next, second half: compare and advance.                           *)
(***************************************************************************)
\* Mutant: the comparison leaves out the last byte of the prefix.
PrefixLen_short == 9 - 1

\* The bytes of the ordering prefix: memcmp(last_issued, ubuf, 9).
PrefixLen == 9

\* Mutant: no candidate is refused for its prefix.
BackwardsInTime_never(c) == FALSE

\* Mutant: the test of the comparison is inverted.
BackwardsInTime_inverted(c) == c < 0

\* Mutant: an equal prefix is refused as well.
BackwardsInTime_orEqual(c) == c >= 0

\* if (cmp > 0): the candidate sorts before the Last-Issued State.
BackwardsInTime(c) == c > 0

\* Mutant: the counter starts again from 1 on every equal prefix.
NextSeq_restart(last) == 1

\* Mutant: the increment is forgotten.
NextSeq_same(last) == last[10]

\* uint16_t seq = 1 + last_issued[9]
NextSeq(last) == 1 + last[10]

\* Mutant: the bound is not tested, so the counter wraps to 0.
SeqFits_always(sq) == TRUE

\* Mutant: the bound is one too high, so the counter wraps to 0.
SeqFits_wraps(sq) == sq <= 256

\* if (seq <= 0xFF)
SeqFits(sq) == sq <= 255

\* Mutant: an exhausted counter rejects only a smaller candidate, not an
\* equal one.
NotLucky_strict(last, u) == memcmp(last, u, 16) > 0

\* if (memcmp(last_issued, ubuf, 16) >= 0): "the caller was NOT lucky".
NotLucky(last, u) == memcmp(last, u, 16) >= 0

\* The compare-and-advance step on Last-Issued State last and candidate u:
\* the new buffer, the new state, success, cmp and the exit taken.
Advance(last, u) ==
    LET c  == memcmp(last, u, PrefixLen)
        sq == NextSeq(last)
        u9 == [u EXCEPT ![10] = IF SeqFits(sq) THEN sq % 256 ELSE 255]
    IN  IF BackwardsInTime(c)
        THEN [ubuf |-> u, last |-> last, success |-> 0, cmp |-> c,
              exit |-> "regress"]
        ELSE IF c = 0
        THEN IF (~SeqFits(sq)) /\ NotLucky(last, u9)
             THEN [ubuf |-> u9, last |-> last, success |-> 0, cmp |-> c,
                   exit |-> "exhaust"]
             ELSE [ubuf |-> u9, last |-> u9, success |-> 1, cmp |-> c,
                   exit |-> "ok"]
        ELSE [ubuf |-> u, last |-> u, success |-> 1, cmp |-> c,
              exit |-> "ok"]

\* Mutant: the buffer is not cleared.
OnFailure_keeps(u) == u

\* if (!success) { memset(ubuf, 0x00, 16); return NULL; }
OnFailure(u) == Zero16

\* The greater of two buffers under memcmp.
Max16(a, b) == IF memcmp(a, b, 16) >= 0 THEN a ELSE b

(***************************************************************************)
(* What the callers of uuid7_parts and uuid7_to_string hold before the     *)
(* call.                                                                   *)
(***************************************************************************)
\* struct uuid7 u, declared and not yet filled: no field has a value.
NoParts ==
    [seconds |-> <<>>, hifrac |-> -1, uuid_ver |-> -1, lofrac |-> -1,
     uuid_var |-> -1, hiseq |-> -1, loseq |-> -1, segment |-> -1,
     rand |-> <<>>]

\* No destination buffer is in use.
NoBuf == <<>>

\* The budget of a thread whose calls are not counted.
Unbounded == 0 - 1

(***************************************************************************)
(* The state machine.  A thread is idle, inside uuid7 (gettime, getrandom, *)
(* lock, merge, commit, unlock, returned) or inside uuid7_reset            *)
(* (reset_zero, reset_unlock).                                             *)
(***************************************************************************)
Init ==
    /\ mode \in Modes
    /\ uuid7_mutex_initd = FALSE
    /\ uuid7_mutex = 0
    /\ uuid7_last = [sc \in Scopes |-> Zero16]
    /\ uuid7_last_addr = LastAddr
    /\ pc = [t \in Threads |-> "idle"]
    /\ ts = [t \in Threads |-> NoTime]
    /\ time_rc = [t \in Threads |-> 0]
    /\ random_bytes = [t \in Threads |-> NoRandom]
    /\ rndbytes = [t \in Threads |-> 0]
    /\ ubuf = [t \in Threads |-> Junk16]
    /\ cmp = [t \in Threads |-> 0]
    /\ success = [t \in Threads |-> 0]
    /\ rv = [t \in Threads |-> "none"]
    /\ outcome = [t \in Threads |-> "none"]
    /\ prev = [t \in Threads |-> "none"]
    /\ visited = [t \in Threads |-> {}]
    /\ streak = [sc \in Scopes |-> 0]
    /\ last_at_call = [t \in Threads |-> Zero16]
    /\ issued_max = [sc \in Scopes |-> <<>>]
    /\ segment = 0
    /\ last_issued = Zero16
    /\ parts = NoParts
    /\ parts_rv = "none"
    /\ buf = NoBuf
    /\ buf_size = 0
    /\ str_rv = "none"
    /\ earlier = NoTime
    /\ budget = [t \in Threads |-> Unbounded]

\* A call may begin while the thread's budget is not used up; beginning it
\* takes one from a bounded budget.
MayBegin(t) == budget[t] # 0

Spend(t) == [budget EXCEPT ![t] = IF @ > 0 THEN @ - 1 ELSE @]

\* The caller enters uuid7(ubuf) with a buffer of its own.
Call(t) ==
    /\ pc[t] = "idle"
    /\ MayBegin(t)
    /\ budget' = Spend(t)
    /\ pc' = [pc EXCEPT ![t] = "gettime"]
    /\ last_at_call' = [last_at_call EXCEPT ![t] = uuid7_last[Scope(t)]]
    /\ UNCHANGED <<mode, uuid7_mutex_initd, uuid7_mutex, uuid7_last,
                   uuid7_last_addr, ts, time_rc, random_bytes, rndbytes, ubuf,
                   cmp, success, rv, outcome, prev, visited, streak,
                   issued_max>>
    /\ UNCHANGED codec

\* Mutant: only a negative return counts as a failure.
TimeFailed_negative(rc) == rc < 0

\* if (uuid7_clock_gettime(uuid7_clockid, &ts))
TimeFailed(rc) == rc # 0

\* uuid7: the time read; on failure { memset(ubuf, 0x00, 16); return NULL; }
GetTime(t) ==
    /\ pc[t] = "gettime"
    /\ visited' = [visited EXCEPT ![t] = @ \cup {"gettime"}]
    /\ \E rc \in TimeReturns :
          /\ time_rc' = [time_rc EXCEPT ![t] = rc]
          /\ IF TimeFailed(rc)
             THEN /\ ubuf' = [ubuf EXCEPT ![t] = OnFailure(ubuf[t])]
                  /\ rv' = [rv EXCEPT ![t] = "NULL"]
                  /\ outcome' = [outcome EXCEPT ![t] = "time"]
                  /\ pc' = [pc EXCEPT ![t] = "returned"]
                  /\ UNCHANGED ts
             ELSE /\ \E tm \in Times : ts' = [ts EXCEPT ![t] = tm]
                  /\ pc' = [pc EXCEPT ![t] = "getrandom"]
                  /\ UNCHANGED <<ubuf, rv, outcome>>
    /\ UNCHANGED <<mode, uuid7_mutex_initd, uuid7_mutex, uuid7_last,
                   uuid7_last_addr, random_bytes, rndbytes, cmp, success,
                   prev, streak, last_at_call, issued_max>>
    /\ UNCHANGED <<codec, budget>>

\* Mutant: the result of the read is not looked at.
BadRead_never(n) == FALSE

\* Mutant: a short read is taken for a good one.
BadRead_negative(n) == n < 0

\* if (rndbytes < 0 || ((size_t)rndbytes != size)), size being 8
BadRead(n) == n < 0 \/ n # 8

\* uuid7: rndbytes = uuid7_getrandom(&random_bytes, size, flags); on a bad
\* read { memset(ubuf, 0x00, 16); return NULL; }, else the segment is
\* computed and uuid7_next packs the candidate into ubuf.
GetRandom(t) ==
    /\ pc[t] = "getrandom"
    /\ visited' = [visited EXCEPT ![t] = @ \cup {"getrandom"}]
    /\ \E n \in RndReturns :
          /\ rndbytes' = [rndbytes EXCEPT ![t] = n]
          /\ IF BadRead(n)
             THEN /\ ubuf' = [ubuf EXCEPT ![t] = OnFailure(ubuf[t])]
                  /\ rv' = [rv EXCEPT ![t] = "NULL"]
                  /\ outcome' = [outcome EXCEPT ![t] = "random"]
                  /\ pc' = [pc EXCEPT ![t] = "returned"]
                  /\ UNCHANGED random_bytes
             ELSE /\ \E rb \in Randoms :
                        /\ random_bytes' = [random_bytes EXCEPT ![t] = rb]
                        /\ ubuf' = [ubuf EXCEPT ![t] =
                              Encode(ts[t],
                                     SegmentOf(mode, rb, uuid7_last_addr[t]),
                                     rand32(rb))]
                  /\ pc' = [pc EXCEPT ![t] = "lock"]
                  /\ UNCHANGED <<rv, outcome>>
    /\ UNCHANGED <<mode, uuid7_mutex_initd, uuid7_mutex, uuid7_last,
                   uuid7_last_addr, ts, time_rc, cmp, success, prev, streak,
                   last_at_call, issued_max>>
    /\ UNCHANGED <<codec, budget>>

\* Mutant: the flag is tested the wrong way round.
Locks_inverted == mode = "mutex" /\ ~uuid7_mutex_initd

\* #ifdef UUID7_WITH_MUTEX ... if (uuid7_mutex_initd)
Locks == mode = "mutex" /\ uuid7_mutex_initd

\* Mutant: the lock is taken although another thread holds it.
CanLock_always(m) == TRUE

\* mtx_lock(&uuid7_mutex) returns once no thread holds the mutex m.
CanLock(m) == m = 0

\* uuid7_next: if (uuid7_mutex_initd) { mtx_lock(&uuid7_mutex); }
Lock(t) ==
    /\ pc[t] = "lock"
    /\ visited' = [visited EXCEPT ![t] = @ \cup {"lock"}]
    /\ IF Locks
       THEN CanLock(uuid7_mutex) /\ uuid7_mutex' = t
       ELSE UNCHANGED uuid7_mutex
    /\ pc' = [pc EXCEPT ![t] = "merge"]
    /\ UNCHANGED <<mode, uuid7_mutex_initd, uuid7_last, uuid7_last_addr, ts,
                   time_rc, random_bytes, rndbytes, ubuf, cmp, success, rv,
                   outcome, prev, streak, last_at_call, issued_max>>
    /\ UNCHANGED <<codec, budget>>

\* Mutant: the failing exits return at once, past the unlock.
uuid7_next_end_past == "returned"

\* goto uuid7_next_end: the label stands before the unlock.
uuid7_next_end == "unlock"

\* The streak of a scope after a comparison with result c.
StreakAfter(n, c) ==
    IF c < 0 THEN 1
    ELSE IF c = 0 THEN (IF n < 257 THEN n + 1 ELSE 257)
    ELSE n

\* uuid7_next: cmp = memcmp(last_issued, ubuf, 9) and the sequence number:
\* the reads of the Last-Issued State, up to the memcpy or the goto.
Merge(t) ==
    /\ pc[t] = "merge"
    /\ visited' = [visited EXCEPT ![t] = @ \cup {"merge"}]
    /\ LET r == Advance(uuid7_last[Scope(t)], ubuf[t])
       IN  /\ ubuf' = [ubuf EXCEPT ![t] = r.ubuf]
           /\ cmp' = [cmp EXCEPT ![t] = r.cmp]
           /\ outcome' = [outcome EXCEPT ![t] = r.exit]
           /\ streak' = [streak EXCEPT ![Scope(t)] = StreakAfter(@, r.cmp)]
           /\ pc' = [pc EXCEPT ![t] =
                        IF r.success = 1 THEN "commit" ELSE uuid7_next_end]
    /\ UNCHANGED <<mode, uuid7_mutex_initd, uuid7_mutex, uuid7_last,
                   uuid7_last_addr, ts, time_rc, random_bytes, rndbytes,
                   success, rv, prev, last_at_call, issued_max>>
    /\ UNCHANGED <<codec, budget>>

\* Mutant: the copy stops after loseq.
Committed_short(last, u) == [i \in 1..16 |-> IF i <= 10 THEN u[i] ELSE last[i]]

\* memcpy(last_issued, ubuf, 16)
Committed(last, u) == u

\* uuid7_next: memcpy(last_issued, ubuf, 16); success = 1;
Commit(t) ==
    /\ pc[t] = "commit"
    /\ visited' = [visited EXCEPT ![t] = @ \cup {"commit"}]
    /\ uuid7_last' = [uuid7_last EXCEPT ![Scope(t)] = Committed(@, ubuf[t])]
    /\ success' = [success EXCEPT ![t] = 1]
    /\ issued_max' = [issued_max EXCEPT ![Scope(t)] =
                         IF @ = <<>> THEN ubuf[t] ELSE Max16(@, ubuf[t])]
    /\ pc' = [pc EXCEPT ![t] = "unlock"]
    /\ UNCHANGED <<mode, uuid7_mutex_initd, uuid7_mutex, uuid7_last_addr, ts,
                   time_rc, random_bytes, rndbytes, ubuf, cmp, rv, outcome,
                   prev, streak, last_at_call>>
    /\ UNCHANGED <<codec, budget>>

\* mtx_unlock(&uuid7_mutex) by thread t, the mutex being held by m (0: by
\* no thread): the holders it can leave.  The holder's unlock frees the
\* mutex; the behaviour of any other unlock is undefined, the call may fail
\* and change nothing or free the mutex under its holder.
Unlocked(m, t) == IF m = t THEN {0} ELSE {m, 0}

\* uuid7_next_end: if (uuid7_mutex_initd) { mtx_unlock(&uuid7_mutex); }
\* if (!success) { memset(ubuf, 0x00, 16); return NULL; } return ubuf;
Unlock(t) ==
    /\ pc[t] = "unlock"
    /\ visited' = [visited EXCEPT ![t] = @ \cup {"unlock"}]
    /\ IF Locks
       THEN uuid7_mutex' \in Unlocked(uuid7_mutex, t)
       ELSE UNCHANGED uuid7_mutex
    /\ IF success[t] = 0
       THEN /\ ubuf' = [ubuf EXCEPT ![t] = OnFailure(ubuf[t])]
            /\ rv' = [rv EXCEPT ![t] = "NULL"]
       ELSE /\ rv' = [rv EXCEPT ![t] = "ubuf"]
            /\ UNCHANGED ubuf
    /\ pc' = [pc EXCEPT ![t] = "returned"]
    /\ UNCHANGED <<mode, uuid7_mutex_initd, uuid7_last, uuid7_last_addr, ts,
                   time_rc, random_bytes, rndbytes, cmp, success, outcome,
                   prev, streak, last_at_call, issued_max>>
    /\ UNCHANGED <<codec, budget>>

\* The caller has the result; the frame of the call is gone.
Return(t) ==
    /\ pc[t] = "returned"
    /\ pc' = [pc EXCEPT ![t] = "idle"]
    /\ prev' = [prev EXCEPT ![t] = outcome[t]]
    /\ ts' = [ts EXCEPT ![t] = NoTime]
    /\ time_rc' = [time_rc EXCEPT ![t] = 0]
    /\ random_bytes' = [random_bytes EXCEPT ![t] = NoRandom]
    /\ rndbytes' = [rndbytes EXCEPT ![t] = 0]
    /\ ubuf' = [ubuf EXCEPT ![t] = Junk16]
    /\ cmp' = [cmp EXCEPT ![t] = 0]
    /\ success' = [success EXCEPT ![t] = 0]
    /\ rv' = [rv EXCEPT ![t] = "none"]
    /\ outcome' = [outcome EXCEPT ![t] = "none"]
    /\ visited' = [visited EXCEPT ![t] = {}]
    /\ last_at_call' = [last_at_call EXCEPT ![t] = Zero16]
    /\ UNCHANGED <<mode, uuid7_mutex_initd, uuid7_mutex, uuid7_last,
                   uuid7_last_addr, streak, issued_max>>
    /\ UNCHANGED <<codec, budget>>

\* uuid7_reset: if (uuid7_mutex_initd) { mtx_lock(&uuid7_mutex); }
ResetLock(t) ==
    /\ pc[t] = "idle"
    /\ MayBegin(t)
    /\ budget' = Spend(t)
    /\ IF Locks
       THEN CanLock(uuid7_mutex) /\ uuid7_mutex' = t
       ELSE UNCHANGED uuid7_mutex
    /\ pc' = [pc EXCEPT ![t] = "reset_zero"]
    /\ UNCHANGED <<mode, uuid7_mutex_initd, uuid7_last, uuid7_last_addr, ts,
                   time_rc, random_bytes, rndbytes, ubuf, cmp, success, rv,
                   outcome, prev, visited, streak, last_at_call, issued_max>>
    /\ UNCHANGED codec

\* Mutant: only the first 8 bytes are zeroed.
Zeroed_half(last) == [i \in 1..16 |-> IF i <= 8 THEN 0 ELSE last[i]]

\* memset(uuid7_last, 0x00, 16)
Zeroed(last) == Zero16

\* uuid7_reset: memset(uuid7_last, 0x00, 16);
ResetZero(t) ==
    /\ pc[t] = "reset_zero"
    /\ uuid7_last' = [uuid7_last EXCEPT ![Scope(t)] = Zeroed(@)]
    /\ issued_max' = [issued_max EXCEPT ![Scope(t)] = <<>>]
    /\ streak' = [streak EXCEPT ![Scope(t)] = 0]
    /\ pc' = [pc EXCEPT ![t] = "reset_unlock"]
    /\ UNCHANGED <<mode, uuid7_mutex_initd, uuid7_mutex, uuid7_last_addr, ts,
                   time_rc, random_bytes, rndbytes, ubuf, cmp, success, rv,
                   outcome, prev, visited, last_at_call>>
    /\ UNCHANGED <<codec, budget>>

\* uuid7_reset: if (uuid7_mutex_initd) { mtx_unlock(&uuid7_mutex); }
ResetUnlock(t) ==
    /\ pc[t] = "reset_unlock"
    /\ IF Locks
       THEN uuid7_mutex' \in Unlocked(uuid7_mutex, t)
       ELSE UNCHANGED uuid7_mutex
    /\ pc' = [pc EXCEPT ![t] = "idle"]
    /\ prev' = [prev EXCEPT ![t] = "reset"]
    /\ UNCHANGED <<mode, uuid7_mutex_initd, uuid7_last, uuid7_last_addr, ts,
                   time_rc, random_bytes, rndbytes, ubuf, cmp, success, rv,
                   outcome, visited, streak, last_at_call, issued_max>>
    /\ UNCHANGED <<codec, budget>>

\* uuid7_mutex_init: rv = mtx_init(&uuid7_mutex, mtx_plain);
\* if (rv == thrd_success) { uuid7_mutex_initd = true; }
MutexInit(t) ==
    /\ mode = "mutex"
    /\ pc[t] = "idle"
    /\ ~uuid7_mutex_initd
    /\ \E thrd_success \in BOOLEAN :
          uuid7_mutex_initd' = (thrd_success \/ uuid7_mutex_initd)
    /\ uuid7_mutex' = 0
    /\ UNCHANGED <<mode, uuid7_last, uuid7_last_addr, pc, ts, time_rc,
                   random_bytes, rndbytes, ubuf, cmp, success, rv, outcome,
                   prev, visited, streak, last_at_call, issued_max>>
    /\ UNCHANGED <<codec, budget>>

\* uuid7_mutex_destroy: mtx_destroy(&uuid7_mutex); uuid7_mutex_initd = false;
\* The function does not look whether the mutex is held; to destroy a held
\* mutex is undefined, its holder may be left as it is or be gone.
MutexDestroy(t) ==
    /\ mode = "mutex"
    /\ pc[t] = "idle"
    /\ uuid7_mutex_initd
    /\ uuid7_mutex' \in {uuid7_mutex, 0}
    /\ uuid7_mutex_initd' = FALSE
    /\ UNCHANGED <<mode, uuid7_last, uuid7_last_addr, pc, ts,
                   time_rc, random_bytes, rndbytes, ubuf, cmp, success, rv,
                   outcome, prev, visited, streak, last_at_call, issued_max>>
    /\ UNCHANGED <<codec, budget>>

Step(t) ==
    \/ Call(t)
    \/ GetTime(t)
    \/ GetRandom(t)
    \/ Lock(t)
    \/ Merge(t)
    \/ Commit(t)
    \/ Unlock(t)
    \/ Return(t)
    \/ ResetLock(t)
    \/ ResetZero(t)
    \/ ResetUnlock(t)
    \/ MutexInit(t)
    \/ MutexDestroy(t)

\* One caller: every call runs to its return before the next begins.
Next == Step(MainThread)

Spec == Init /\ [][Next]_vars

(***************************************************************************)
(* Vocabulary of the properties.                                           *)
(***************************************************************************)
\* uuid7_parts: u->uuid_ver = (bytes[6] & 0xF0) >> 4
uuid_ver(bytes) == Bits(bytes[7], 4, 4)

\* uuid7_parts: u->uuid_var = (bytes[8] & 0xC0) >> 6
uuid_var(bytes) == Bits(bytes[9], 6, 2)

\* uuid7_parts: u->loseq = bytes[9]
loseq(bytes) == bytes[10]

\* The call of thread t has returned to its caller.
Returned(t) == pc[t] = "returned"

\* The call of thread t reached the comparison, so it encoded a candidate.
Compared(t) == "merge" \in visited[t]

\* The candidate the call of thread t encoded from its time and random draw.
Cand(t) ==
    Encode(ts[t],
           SegmentOf(mode, random_bytes[t], uuid7_last_addr[t]),
           rand32(random_bytes[t]))

\* The candidate with its loseq byte set to n.
WithSeq(u, n) == [u EXCEPT ![10] = n]

\* a sorts strictly before b as 16 bytes, a sorts before b in the prefix.
Less16(a, b) == memcmp(a, b, 16) < 0

PrefixLess(a, b) == memcmp(a, b, 9) < 0

PrefixEq(a, b) == memcmp(a, b, 9) = 0

\* C1: an identifier committed by a successful call is strictly greater,
\* bytewise, than every identifier its scope issued since the last reset
\* (issued_max is the greatest of them), and the bytes the call returns are
\* the bytes it committed.
C1_Monotonic ==
    [][\A t \in Threads :
          /\ (pc[t] = "commit" /\ success'[t] = 1
                 /\ issued_max[Scope(t)] # <<>>)
                => Less16(issued_max[Scope(t)], ubuf'[t])
          /\ (pc[t] = "unlock" /\ rv'[t] = "ubuf")
                => (ubuf'[t] = ubuf[t] /\ ubuf[t] = issued_max[Scope(t)])]_vars

\* C1 witness: a call on a state whose counter is already 255 succeeded
\* with the same prefix, on the strength of its tail alone.
C1_Witness ==
    \E t \in Threads :
        /\ Returned(t) /\ rv[t] = "ubuf"
        /\ PrefixEq(last_at_call[t], ubuf[t])
        /\ loseq(last_at_call[t]) = 255
        /\ Less16(last_at_call[t], ubuf[t])

\* C2: a call whose candidate prefix is bytewise less than the prefix of the
\* Last-Issued State returns NULL, and the state holds the 16 bytes it held
\* when the call began.
C2_ClockRegression ==
    \A t \in Threads :
        (Returned(t) /\ Compared(t) /\ PrefixLess(Cand(t), last_at_call[t]))
            => /\ rv[t] = "NULL"
               /\ uuid7_last[Scope(t)] = last_at_call[t]

\* C2 witness: a call has failed on a candidate that differs from an issued
\* identifier only in the last byte of the prefix.
C2_Witness ==
    \E t \in Threads :
        /\ Returned(t) /\ Compared(t) /\ rv[t] = "NULL"
        /\ PrefixLess(Cand(t), last_at_call[t])
        /\ memcmp(Cand(t), last_at_call[t], 8) = 0
        /\ uuid7_last[Scope(t)] = last_at_call[t]

\* C3 as claimed: the call after a clock-regression failure succeeds whenever
\* its candidate prefix sorts at or after the prefix of the state.
C3_RecoveryAsClaimed ==
    \A t \in Threads :
        (Returned(t) /\ Compared(t) /\ prev[t] = "regress"
             /\ ~PrefixLess(Cand(t), last_at_call[t]))
            => rv[t] = "ubuf"

\* The one case in which a candidate that does not sort before the state is
\* refused: same prefix, counter of the state at 255, and the candidate with
\* loseq 255 not strictly greater than the state.
Exhausted(last, u) ==
    /\ PrefixEq(last, u)
    /\ loseq(last) = 255
    /\ ~Less16(last, WithSeq(u, 255))

\* C3 amended: the call after a clock-regression failure, when its candidate
\* prefix sorts at or after the prefix of the state, succeeds unless the
\* counter is exhausted, and then it fails.
C3_Recovery ==
    \A t \in Threads :
        (Returned(t) /\ Compared(t) /\ prev[t] = "regress"
             /\ ~PrefixLess(Cand(t), last_at_call[t]))
            => (rv[t] = "ubuf" <=> ~Exhausted(last_at_call[t], Cand(t)))

\* C3 witness: the call after a clock-regression failure has succeeded on
\* the very prefix of the unchanged state.
C3_Witness ==
    \E t \in Threads :
        /\ Returned(t) /\ prev[t] = "regress" /\ rv[t] = "ubuf"
        /\ PrefixEq(Cand(t), last_at_call[t])

\* C4: reset leaves the state all zero; and a call that finds the state all
\* zero and whose time and randomness sources succeed returns its buffer,
\* with loseq 0, and the state then equals that buffer.
C4_ZeroStateAccepts ==
    \A t \in Threads :
        /\ pc[t] = "reset_unlock" => uuid7_last[Scope(t)] = Zero16
        /\ (Returned(t) /\ last_at_call[t] = Zero16
                /\ time_rc[t] = 0 /\ rndbytes[t] = 8)
              => /\ rv[t] = "ubuf"
                 /\ loseq(ubuf[t]) = 0
                 /\ uuid7_last[Scope(t)] = ubuf[t]

\* C4 witness: the first call after a reset succeeded at seconds = 0,
\* nanoseconds = 0.
C4_Witness ==
    \E t \in Threads :
        /\ Returned(t) /\ prev[t] = "reset" /\ rv[t] = "ubuf"
        /\ ts[t] \in Times /\ ts[t].tv_sec = W64(0) /\ ts[t].tv_nsec = 0
        /\ last_at_call[t] = Zero16

\* C5: of the calls that encode one prefix, counted from the call that
\* advanced the state to that prefix, the k-th succeeds and returns
\* loseq k - 1, for k = 1 .. 256.
C5_CounterRollover ==
    \A t \in Threads :
        (Returned(t) /\ Compared(t) /\ ~PrefixLess(Cand(t), last_at_call[t])
             /\ streak[Scope(t)] <= 256)
            => /\ rv[t] = "ubuf"
               /\ loseq(ubuf[t]) = streak[Scope(t)] - 1

\* C5 witness: the 256th call on one prefix returned loseq 255.
C5_Witness ==
    \E t \in Threads :
        /\ Returned(t) /\ rv[t] = "ubuf"
        /\ streak[Scope(t)] = 256 /\ loseq(ubuf[t]) = 255

\* C6: with the candidate prefix equal to the prefix of the state and the
\* counter of the state at 255, the call succeeds exactly when the candidate
\* with loseq 255 is strictly greater than the state, and that is then the
\* buffer returned and the new state; otherwise it returns NULL and the
\* state is unchanged.
C6_CounterExhaustion ==
    \A t \in Threads :
        (Returned(t) /\ Compared(t) /\ PrefixEq(Cand(t), last_at_call[t])
             /\ loseq(last_at_call[t]) = 255)
            => IF Less16(last_at_call[t], WithSeq(Cand(t), 255))
               THEN /\ rv[t] = "ubuf"
                    /\ ubuf[t] = WithSeq(Cand(t), 255)
                    /\ uuid7_last[Scope(t)] = ubuf[t]
               ELSE /\ rv[t] = "NULL"
                    /\ uuid7_last[Scope(t)] = last_at_call[t]

\* C6 witness: the 257th call on one prefix, with the segment and random
\* value of the last identifier, failed.
C6_Witness ==
    \E t \in Threads :
        /\ Returned(t) /\ Compared(t) /\ rv[t] = "NULL"
        /\ streak[Scope(t)] = 257
        /\ WithSeq(Cand(t), 255) = last_at_call[t]

\* C7: a call returns NULL or its buffer; a call that returns NULL leaves
\* its buffer all zero and the state as it was when the call began; and a
\* call that took a failing exit returns NULL.
C7_FailureZeroFill ==
    \A t \in Threads :
        Returned(t)
            => /\ rv[t] \in {"NULL", "ubuf"}
               /\ rv[t] = "NULL"
                     => (ubuf[t] = Zero16
                            /\ uuid7_last[Scope(t)] = last_at_call[t])
               /\ ( \/ time_rc[t] # 0
                    \/ ("getrandom" \in visited[t] /\ rndbytes[t] # 8)
                    \/ (Compared(t) /\ PrefixLess(Cand(t), last_at_call[t]))
                    \/ (Compared(t) /\ Exhausted(last_at_call[t], Cand(t))) )
                     => rv[t] = "NULL"

\* C7 witness: a call failed of exhaustion, after a candidate with loseq 255
\* had been written into the buffer.
C7_Witness ==
    \E t \in Threads :
        /\ Returned(t) /\ rv[t] = "NULL" /\ ubuf[t] = Zero16
        /\ Compared(t) /\ Exhausted(last_at_call[t], Cand(t))
        /\ last_at_call[t] # Zero16

\* C8: a call whose time source failed returns NULL without having called
\* the randomness source or entered uuid7_next, and it leaves the state and
\* the mutex as they were.
C8_TimeSourceFailure ==
    \A t \in Threads :
        (Returned(t) /\ time_rc[t] # 0)
            => /\ rv[t] = "NULL"
               /\ visited[t] = {"gettime"}
               /\ uuid7_last[Scope(t)] = last_at_call[t]
               /\ uuid7_mutex = 0

\* C8 witness: after a call that failed at the time source, the next call
\* succeeded.
C8_Witness ==
    \E t \in Threads :
        /\ Returned(t) /\ prev[t] = "time" /\ rv[t] = "ubuf"
        /\ last_at_call[t] # Zero16

\* C9: a call whose randomness source returned anything but 8 returns NULL
\* without entering uuid7_next and leaves the state as it was; a call
\* reaches the lock only after a read of exactly 8 bytes.
C9_RandomSourceFailure ==
    \A t \in Threads :
        /\ (Returned(t) /\ "getrandom" \in visited[t] /\ rndbytes[t] # 8)
              => /\ rv[t] = "NULL"
                 /\ visited[t] = {"gettime", "getrandom"}
                 /\ uuid7_last[Scope(t)] = last_at_call[t]
        /\ pc[t] \in {"lock", "merge", "unlock"} => rndbytes[t] = 8
        /\ (Returned(t) /\ Compared(t)) => rndbytes[t] = 8

\* C9 witness: a call failed on a short read of 4 bytes, on a state that
\* holds an identifier.
C9_Witness ==
    \E t \in Threads :
        /\ Returned(t) /\ rndbytes[t] = 4 /\ rv[t] = "NULL"
        /\ "getrandom" \in visited[t]
        /\ last_at_call[t] # Zero16

\* C10: a buffer returned by a successful call has version 7 and variant 1,
\* and is not all zero.
C10_VersionVariant ==
    \A t \in Threads :
        (Returned(t) /\ rv[t] = "ubuf")
            => /\ uuid_ver(ubuf[t]) = 7
               /\ uuid_var(ubuf[t]) = 1
               /\ ubuf[t] # Zero16

\* C10 witness: a successful call at seconds = 0, nanoseconds = 0, whose
\* time fields are all zero.
C10_Witness ==
    \E t \in Threads :
        /\ Returned(t) /\ rv[t] = "ubuf"
        /\ \A i \in 1..6 : ubuf[t][i] = 0
        /\ ubuf[t][8] = 0

(***************************************************************************)
(* uuid7_parts: the fields of 16 bytes.                                    *)
(***************************************************************************)
\* Bit k of (b << s) and of (b >> s), b one byte widened to 64 bits.
ShlBit(b, s, k) == IF k >= s /\ k < s + 8 THEN Bits(b, k - s, 1) ELSE 0

ShrBit(b, s, k) == IF k + s < 8 THEN Bits(b, k + s, 1) ELSE 0

\* a | b on single bits.
Or1(a, b) == IF a + b > 0 THEN 1 ELSE 0

\* Bit k of (bytes[0] << 28) | (bytes[1] << 20) | (bytes[2] << 12)
\*          | (bytes[3] << 4) | (bytes[4] >> 4)
PartsSecondsBit(b, k) ==
    Or1(ShlBit(b[1], 28, k),
        Or1(ShlBit(b[2], 20, k),
            Or1(ShlBit(b[3], 12, k),
                Or1(ShlBit(b[4], 4, k), ShrBit(b[5], 4, k)))))

\* u->seconds, a bit-field of 36 bits, as a 64-bit quantity.
PartsSeconds(b) ==
    [i \in 1..8 |->
        LET B(j) == IF (8 * (i - 1)) + j < 36
                    THEN PartsSecondsBit(b, (8 * (i - 1)) + j)
                    ELSE 0
        IN  B(0) + (2 * B(1)) + (4 * B(2)) + (8 * B(3)) + (16 * B(4))
                 + (32 * B(5)) + (64 * B(6)) + (128 * B(7))]

\* u->hifrac = (((uint16_t)bytes[4] & 0x0F) << 8) | bytes[5]
PartsHifrac(b) == (Bits(b[5], 0, 4) * 256) + b[6]

\* u->lofrac = (((uint16_t)(bytes[6] & 0x0F)) << 8) | bytes[7]
PartsLofrac(b) == (Bits(b[7], 0, 4) * 256) + b[8]

\* u->hiseq = bytes[8] & 0x3F
PartsHiseq(b) == Bits(b[9], 0, 6)

\* Mutant: the two bytes of the segment are taken in the other order.
PartsSegment_swapped(b) == (b[12] * 256) + b[11]

\* u->segment = (((uint16_t)bytes[10]) << 8) | bytes[11]
PartsSegment(b) == (b[11] * 256) + b[12]

\* Bit k of (bytes[15] << 24) | (bytes[14] << 16) | (bytes[13] << 8)
\*          | (bytes[12] << 0)
PartsRandBit(b, k) ==
    Or1(ShlBit(b[16], 24, k),
        Or1(ShlBit(b[15], 16, k),
            Or1(ShlBit(b[14], 8, k), ShlBit(b[13], 0, k))))

\* u->rand, a bit-field of 32 bits, as a 64-bit quantity.
PartsRand(b) ==
    [i \in 1..8 |->
        LET B(j) == IF (8 * (i - 1)) + j < 32
                    THEN PartsRandBit(b, (8 * (i - 1)) + j)
                    ELSE 0
        IN  B(0) + (2 * B(1)) + (4 * B(2)) + (8 * B(3)) + (16 * B(4))
                 + (32 * B(5)) + (64 * B(6)) + (128 * B(7))]

\* Mutant: the variant is not looked at.
PartsValid_version(ver, var) == ver = uuid7_version

\* u->uuid_ver == uuid7_version && u->uuid_var == uuid7_variant
PartsValid(ver, var) == ver = uuid7_version /\ var = uuid7_variant

\* uuid7_parts(&u, bytes): the struct it fills and what it returns.
uuid7_parts(b) ==
    LET f == [seconds  |-> PartsSeconds(b),
              hifrac   |-> PartsHifrac(b),
              uuid_ver |-> uuid_ver(b),
              lofrac   |-> PartsLofrac(b),
              uuid_var |-> uuid_var(b),
              hiseq    |-> PartsHiseq(b),
              loseq    |-> loseq(b),
              segment  |-> PartsSegment(b),
              rand     |-> PartsRand(b)]
    IN  [u  |-> f,
         rv |-> IF PartsValid(f.uuid_ver, f.uuid_var) THEN "u" ELSE "NULL"]

\* uuid7_nanos of the test, uuid7_decode of the demo:
\* (hifrac << 18) | (lofrac << 6) | hiseq
uuid7_nanos(f) == (f.hifrac * (2 ^ 18)) + (f.lofrac * (2 ^ 6)) + f.hiseq

(***************************************************************************)
(* uuid7_to_string.  A char is its ASCII code; the destination is the      *)
(* memory of the caller's array, of which buf_size bytes are offered.      *)
(***************************************************************************)
\* Mutant: upper-case digits.
uuid7_nibble_to_hex_upper(nib) ==
    IF nib < 10 THEN 48 + nib ELSE 65 + (nib - 10)

\* rv = (nib < 10) ? '0' + nib : 'a' + (nib - 10)
uuid7_nibble_to_hex(nib) == IF nib < 10 THEN 48 + nib ELSE 97 + (nib - 10)

\* Mutant: the first argument is returned whatever the second is.
uuid7_minz_first(a, b) == a

\* return (a < b) ? a : b
uuid7_minz(a, b) == IF a < b THEN a ELSE b

\* const size_t uuid_str_size = ((16 * 2) + 4) + 1
uuid_str_size == ((16 * 2) + 4) + 1

\* Mutant: the hyphens follow the bytes counted from 1.
HyphenAfter_fromOne(i) == i \in {4, 4 + 2, 4 + 2 + 2, 4 + 2 + 2 + 2}

\* switch (i) { case 3: case 3 + 2: case 3 + 2 + 2: case 3 + 2 + 2 + 2:
HyphenAfter(i) == i \in {3, 3 + 2, 3 + 2 + 2, 3 + 2 + 2 + 2}

\* memset(buf, 0x00, n) on the memory m.
Cleared(m, n) == [k \in 1..Len(m) |-> IF k <= n THEN 0 ELSE m[k]]

\* for (size_t i = 0; i < 16; ++i) { ... buf[pos++] = ... }: the memory after
\* the iterations i .. 15, starting at position pos.
RECURSIVE ToStringLoop(_, _, _, _)
ToStringLoop(m, pos, i, b) ==
    IF i >= 16 THEN m
    ELSE LET byte   == b[i + 1]
             hi_nib == Bits(byte, 4, 4)
             lo_nib == Bits(byte, 0, 4)
             m1     == [m  EXCEPT ![pos + 1] = uuid7_nibble_to_hex(hi_nib)]
             m2     == [m1 EXCEPT ![pos + 2] = uuid7_nibble_to_hex(lo_nib)]
         IN  IF HyphenAfter(i)
             THEN ToStringLoop([m2 EXCEPT ![pos + 3] = 45], pos + 3, i + 1, b)
             ELSE ToStringLoop(m2, pos + 2, i + 1, b)

\* uuid7_to_string(buf, buf_size, bytes): the memory afterwards and what it
\* returns.
uuid7_to_string(m, n, b) ==
    LET c == Cleared(m, uuid7_minz(uuid_str_size, n))
    IN  IF n < uuid_str_size
        THEN [buf |-> c, rv |-> "NULL"]
        ELSE [buf |-> ToStringLoop(c, 0, 0, b), rv |-> "buf"]

(***************************************************************************)
(* The callers of the codec: check_parts calls uuid7_next with a time, a   *)
(* segment, a random value and a zeroed last[16] of its own, then          *)
(* uuid7_parts; check_to_string calls uuid7_to_string on 16 bytes.         *)
(***************************************************************************)
\* Seconds below 2^36: 0, 1711030306, 0x923456781 and 2^36 - 1.
CodecSeconds ==
    { W64(0),
      W64(1711030306),
      <<129, 103, 69, 35, 9, 0, 0, 0>>,
      <<255, 255, 255, 255, 15, 0, 0, 0>> }

\* Nanoseconds in 0 .. 999999999; 305419896 is 0x12345678.
CodecNanos == {0, 63, 64, 305419896, 999999999}

CodecTimes ==
    { [tv_sec |-> sec, tv_nsec |-> ns] : sec \in CodecSeconds,
                                         ns \in CodecNanos }

\* uint16_t segment: 0, 0x0102, 0x8001, 0xFFFF.
CodecSegments == {0, 258, 32769, 65535}

\* uint32_t random_bytes: 0, 0x04030201, 0x80000001, 0xFFFFFFFF.
CodecRandoms ==
    { W64(0),
      <<1, 2, 3, 4, 0, 0, 0, 0>>,
      <<1, 0, 0, 128, 0, 0, 0, 0>>,
      <<255, 255, 255, 255, 0, 0, 0, 0>> }

\* check_to_string: 01 23 45 67 89 ab 7c de 9f 01 23 45 67 89 ab cd
TestBytes ==
    <<1, 35, 69, 103, 137, 171, 124, 222, 159, 1, 35, 69, 103, 137, 171, 205>>

\* 16 bytes that no call of uuid7_next produced: the zeroed buffer of a
\* failed call, an untouched buffer, the bytes of check_to_string (version
\* 7, variant 2), all ones, version 7 with variant 0, variant 1 with
\* version 4, and bytes with version 7 and variant 1.
ForeignBytes ==
    { Zero16,
      Junk16,
      TestBytes,
      [i \in 1..16 |-> 255],
      [i \in 1..16 |-> IF i = 7 THEN 127 ELSE IF i = 9 THEN 63 ELSE 171],
      [i \in 1..16 |-> IF i = 7 THEN 79 ELSE IF i = 9 THEN 64 ELSE 171],
      [i \in 1..16 |-> IF i = 7 THEN 112 ELSE IF i = 9 THEN 127 ELSE 171] }

\* char buf[80] of check_to_string.
BufCells == 80

\* The array before the call: nothing has been stored in it.
JunkBuf == [k \in 1..BufCells |-> 63]

\* Sizes offered to uuid7_to_string; check_to_string offers 7 and 80.
BufSizes == {0, 1, 7, 36, 37, 38, BufCells}

InitCodec ==
    /\ mode = "no_threads"
    /\ uuid7_mutex_initd = FALSE
    /\ uuid7_mutex = 0
    /\ uuid7_last = [sc \in Scopes |-> Zero16]
    /\ uuid7_last_addr = LastAddr
    /\ time_rc = [t \in Threads |-> 0]
    /\ rndbytes = [t \in Threads |-> 0]
    /\ cmp = [t \in Threads |-> 0]
    /\ success = [t \in Threads |-> 0]
    /\ rv = [t \in Threads |-> "none"]
    /\ outcome = [t \in Threads |-> "none"]
    /\ prev = [t \in Threads |-> "none"]
    /\ visited = [t \in Threads |-> {}]
    /\ streak = [sc \in Scopes |-> 0]
    /\ last_at_call = [t \in Threads |-> Zero16]
    /\ issued_max = [sc \in Scopes |-> <<>>]
    /\ last_issued = Zero16
    /\ parts = NoParts
    /\ parts_rv = "none"
    /\ buf = JunkBuf
    /\ buf_size = 0
    /\ str_rv = "none"
    /\ earlier = NoTime
    /\ budget = [t \in Threads |-> Unbounded]
    /\ \/ /\ pc = [t \in Threads |-> IF t = MainThread THEN "next" ELSE "idle"]
          /\ \E tm \in CodecTimes :
                ts = [t \in Threads |-> IF t = MainThread THEN tm ELSE NoTime]
          /\ segment \in CodecSegments
          /\ \E rb \in CodecRandoms :
                random_bytes =
                    [t \in Threads |-> IF t = MainThread THEN rb ELSE NoRandom]
          /\ ubuf = [t \in Threads |-> Junk16]
       \/ /\ pc = [t \in Threads |-> IF t = MainThread THEN "parts" ELSE "idle"]
          /\ ts = [t \in Threads |-> NoTime]
          /\ segment = 0
          /\ random_bytes = [t \in Threads |-> NoRandom]
          /\ \E b \in ForeignBytes :
                ubuf = [t \in Threads |-> IF t = MainThread THEN b ELSE Junk16]

\* check_parts: rv = uuid7_next(ubuf, ts, segment, random_bytes, last), the
\* whole call: no mutex is initialised.
Uuid7Next(t) ==
    /\ pc[t] = "next"
    /\ visited' = [visited EXCEPT ![t] = @ \cup {"next"}]
    /\ LET r == Advance(last_issued,
                        Encode(ts[t], segment, rand32(random_bytes[t])))
       IN  /\ last_issued' = r.last
           /\ success' = [success EXCEPT ![t] = r.success]
           /\ cmp' = [cmp EXCEPT ![t] = r.cmp]
           /\ outcome' = [outcome EXCEPT ![t] = r.exit]
           /\ IF r.success = 0
              THEN /\ ubuf' = [ubuf EXCEPT ![t] = OnFailure(r.ubuf)]
                   /\ rv' = [rv EXCEPT ![t] = "NULL"]
              ELSE /\ ubuf' = [ubuf EXCEPT ![t] = r.ubuf]
                   /\ rv' = [rv EXCEPT ![t] = "ubuf"]
    /\ pc' = [pc EXCEPT ![t] = "parts"]
    /\ UNCHANGED <<mode, uuid7_mutex_initd, uuid7_mutex, uuid7_last,
                   uuid7_last_addr, ts, time_rc, random_bytes, rndbytes,
                   prev, streak, last_at_call, issued_max, segment, parts,
                   parts_rv, buf, buf_size, str_rv, earlier, budget>>

\* uuid7_parts(&u, ubuf)
Uuid7Parts(t) ==
    /\ pc[t] = "parts"
    /\ visited' = [visited EXCEPT ![t] = @ \cup {"parts"}]
    /\ parts' = uuid7_parts(ubuf[t]).u
    /\ parts_rv' = uuid7_parts(ubuf[t]).rv
    /\ pc' = [pc EXCEPT ![t] = "to_string"]
    /\ UNCHANGED <<mode, uuid7_mutex_initd, uuid7_mutex, uuid7_last,
                   uuid7_last_addr, ts, time_rc, random_bytes, rndbytes, ubuf,
                   cmp, success, rv, outcome, prev, streak, last_at_call,
                   issued_max, segment, last_issued, buf, buf_size, str_rv,
                   earlier, budget>>

\* uuid7_to_string(buf, buf_size, ubuf)
Uuid7ToString(t) ==
    /\ pc[t] = "to_string"
    /\ visited' = [visited EXCEPT ![t] = @ \cup {"to_string"}]
    /\ \E n \in BufSizes :
          /\ buf_size' = n
          /\ buf' = uuid7_to_string(buf, n, ubuf[t]).buf
          /\ str_rv' = uuid7_to_string(buf, n, ubuf[t]).rv
    /\ pc' = [pc EXCEPT ![t] = "done"]
    /\ UNCHANGED <<mode, uuid7_mutex_initd, uuid7_mutex, uuid7_last,
                   uuid7_last_addr, ts, time_rc, random_bytes, rndbytes, ubuf,
                   cmp, success, rv, outcome, prev, streak, last_at_call,
                   issued_max, segment, last_issued, parts, parts_rv,
                   earlier, budget>>

NextCodec ==
    \/ Uuid7Next(MainThread)
    \/ Uuid7Parts(MainThread)
    \/ Uuid7ToString(MainThread)

SpecCodec == InitCodec /\ [][NextCodec]_vars

(***************************************************************************)
(* Properties of the codec.                                                *)
(***************************************************************************)
\* The caller's 16 bytes came from its call of uuid7_next.
Encoded(t) == "next" \in visited[t]

\* uuid7_parts has filled the caller's struct from the caller's 16 bytes.
Decoded(t) == "parts" \in visited[t]

\* uuid7_to_string has returned to the caller.
Formatted(t) == "to_string" \in visited[t]

\* C11: decoding the identifier encoded from seconds below 2^36, nanoseconds
\* in 0 .. 999999999, a segment and a 32-bit random value gives back the
\* seconds, the segment and the random value, version 7 and variant 1;
\* (hifrac << 18) | (lofrac << 6) is the nanoseconds rounded down to a
\* multiple of 64, and with hiseq added it is the nanoseconds.
C11_RoundTrip ==
    \A t \in Threads :
        (Encoded(t) /\ Decoded(t))
            => /\ rv[t] = "ubuf"
               /\ parts_rv = "u"
               /\ parts.seconds = ts[t].tv_sec
               /\ parts.segment = segment
               /\ parts.rand = random_bytes[t]
               /\ parts.uuid_ver = 7
               /\ parts.uuid_var = 1
               /\ (parts.hifrac * (2 ^ 18)) + (parts.lofrac * (2 ^ 6))
                     = ts[t].tv_nsec - (ts[t].tv_nsec % 64)
               /\ (parts.hifrac * (2 ^ 18)) + (parts.lofrac * (2 ^ 6))
                     + parts.hiseq = ts[t].tv_nsec

\* C11 witness: the greatest inputs have made the round trip: seconds
\* 2^36 - 1, nanoseconds 999999999, segment 0xFFFF, random 0xFFFFFFFF.
C11_Witness ==
    \E t \in Threads :
        /\ Encoded(t) /\ Decoded(t)
        /\ ts[t].tv_sec = <<255, 255, 255, 255, 15, 0, 0, 0>>
        /\ ts[t].tv_nsec = 999999999
        /\ segment = 65535
        /\ random_bytes[t] = <<255, 255, 255, 255, 0, 0, 0, 0>>
        /\ parts.seconds = ts[t].tv_sec
        /\ uuid7_nanos(parts) = 999999999

\* C12: uuid7_parts gives every one of the nine fields a value of the
\* field's width, taken from the bytes, whatever the bytes are; it returns
\* the struct exactly when the high nibble of byte 6 is 7 and the two high
\* bits of byte 8 are 01; sixteen zero bytes are reported invalid.
C12_DecodeValidity ==
    \A t \in Threads :
        Decoded(t)
            => /\ Len(parts.seconds) = 8 /\ Len(parts.rand) = 8
               /\ \A i \in 1..8 : parts.seconds[i] \in Byte
               /\ \A i \in 1..8 : parts.rand[i] \in Byte
               /\ \A i \in 6..8 : parts.seconds[i] = 0
               /\ parts.seconds[5] < 16
               /\ \A i \in 5..8 : parts.rand[i] = 0
               /\ \A i \in 1..4 : parts.rand[i] = ubuf[t][12 + i]
               /\ parts.hifrac \in 0..4095
               /\ parts.uuid_ver = ubuf[t][7] \div 16
               /\ parts.lofrac \in 0..4095
               /\ parts.uuid_var = ubuf[t][9] \div 64
               /\ parts.hiseq = ubuf[t][9] % 64
               /\ parts.loseq = ubuf[t][10]
               /\ parts.segment \in 0..65535
               /\ parts_rv \in {"u", "NULL"}
               /\ parts_rv = "u"
                     <=> (ubuf[t][7] \div 16 = 7 /\ ubuf[t][9] \div 64 = 1)
               /\ ubuf[t] = Zero16 => parts_rv = "NULL"

\* C12 witness: bytes with version 7 and variant 2 have been decoded and
\* reported invalid.
C12_Witness ==
    \E t \in Threads :
        /\ Decoded(t) /\ ~Encoded(t)
        /\ ubuf[t] = TestBytes
        /\ parts.uuid_ver = 7 /\ parts.uuid_var = 2
        /\ parts_rv = "NULL"

\* Bit q of 16 bytes read as one big-endian string of 128 bits, bit 0 being
\* the most significant bit of byte 0.
WireBit(b, q) == Bits(b[(q \div 8) + 1], 7 - (q % 8), 1)

\* The w bits from bit o on, most significant first, as a number (w <= 16).
RECURSIVE WireField(_, _, _)
WireField(b, o, w) ==
    IF w = 0 THEN 0
    ELSE (2 * WireField(b, o, w - 1)) + WireBit(b, o + w - 1)

\* The w bits from bit o on, most significant first, are the low w bits of
\* the 64-bit quantity x.
WireFieldIs(b, o, w, x) ==
    \A j \in 0..(w - 1) : WireBit(b, o + j) = BitW(x, w - 1 - j)

\* The first eight fields of the layout, each most significant bit first.
WireHead(t) ==
    /\ WireFieldIs(ubuf[t], 0, 36, ts[t].tv_sec)
    /\ WireField(ubuf[t], 36, 12) = (ts[t].tv_nsec \div (2 ^ 18)) % (2 ^ 12)
    /\ WireField(ubuf[t], 48, 4) = 7
    /\ WireField(ubuf[t], 52, 12) = (ts[t].tv_nsec \div (2 ^ 6)) % (2 ^ 12)
    /\ WireField(ubuf[t], 64, 2) = 1
    /\ WireField(ubuf[t], 66, 6) = ts[t].tv_nsec % (2 ^ 6)
    /\ WireField(ubuf[t], 72, 8) = 0
    /\ WireField(ubuf[t], 80, 16) = segment

\* C17 as claimed: the bytes packed from the inputs, cut into fields of
\* widths 36, 12, 4, 12, 2, 6, 8, 16 and 32, hold every field most
\* significant bit first, the 32-bit random value included.
C17_WireLayoutAsClaimed ==
    \A t \in Threads :
        (Encoded(t) /\ pc[t] = "parts")
            => /\ WireHead(t)
               /\ WireFieldIs(ubuf[t], 96, 32, random_bytes[t])

\* C17 amended: the first eight fields are stored most significant bit
\* first; the last 32 bits hold the random value least significant byte
\* first: byte 12 is its bits 0..7, byte 15 its bits 24..31.
C17_WireLayout ==
    \A t \in Threads :
        (Encoded(t) /\ pc[t] = "parts")
            => /\ WireHead(t)
               /\ \A k \in 0..3 :
                     WireField(ubuf[t], 96 + (8 * k), 8)
                         = random_bytes[t][k + 1]

\* C17 witness: the random value 0x04030201 of check_parts has been packed
\* as the bytes 01 02 03 04.
C17_Witness ==
    \E t \in Threads :
        /\ Encoded(t) /\ pc[t] = "parts"
        /\ random_bytes[t] = <<1, 2, 3, 4, 0, 0, 0, 0>>
        /\ segment = 258
        /\ <<ubuf[t][11], ubuf[t][12]>> = <<1, 2>>
        /\ <<ubuf[t][13], ubuf[t][14], ubuf[t][15], ubuf[t][16]>>
              = <<1, 2, 3, 4>>

\* The characters 0123456789abcdef.
HexDigits ==
    <<48, 49, 50, 51, 52, 53, 54, 55, 56, 57, 97, 98, 99, 100, 101, 102>>

\* The positions, counted from 0, of the hyphens of 8-4-4-4-12.
HyphenPositions == {8, 13, 18, 23}

\* The hex digit that string position p holds, counted from 0 without the
\* hyphens before p.
DigitIndex(p) == p - Cardinality({h \in HyphenPositions : h < p})

\* The character the canonical form of the bytes b has at position p.
CanonicalChar(b, p) ==
    IF p \in HyphenPositions THEN 45
    ELSE LET d == DigitIndex(p)
             byte == b[(d \div 2) + 1]
         IN  IF d % 2 = 0 THEN HexDigits[(byte \div 16) + 1]
             ELSE HexDigits[(byte % 16) + 1]

\* The string 01234567-89ab-7cde-9f01-23456789abcd.
TestString ==
    << 48, 49, 50, 51, 52, 53, 54, 55, 45, 56, 57, 97, 98, 45, 55,
       99, 100, 101, 45, 57, 102, 48, 49, 45, 50, 51, 52, 53, 54,
       55, 56, 57, 97, 98, 99, 100 >>

\* C18: given at least 37 bytes, uuid7_to_string returns the destination,
\* which holds 36 characters and a terminator: two lower-case hex digits for
\* each byte in byte order, high nibble first, and a hyphen at the positions
\* 8, 13, 18 and 23 and nowhere else; the bytes of check_to_string give
\* 01234567-89ab-7cde-9f01-23456789abcd.
C18_StringFormat ==
    \A t \in Threads :
        (Formatted(t) /\ buf_size >= 37)
            => /\ str_rv = "buf"
               /\ \A p \in 0..35 : buf[p + 1] = CanonicalChar(ubuf[t], p)
               /\ \A p \in 0..35 : (buf[p + 1] = 45) <=> (p \in HyphenPositions)
               /\ buf[37] = 0
               /\ ubuf[t] = TestBytes => SubSeq(buf, 1, 36) = TestString

\* C18 witness: the bytes of check_to_string have been formatted into a
\* destination of exactly 37 bytes.
C18_Witness ==
    \E t \in Threads :
        /\ Formatted(t) /\ buf_size = 37 /\ str_rv = "buf"
        /\ ubuf[t] = TestBytes
        /\ SubSeq(buf, 1, 36) = TestString

\* C19: offered fewer than 37 bytes, uuid7_to_string returns NULL, leaves
\* every offered byte zero (so that a destination of at least one byte reads
\* as the empty string) and stores nothing at or after the offered size;
\* offered 37 bytes or more, it stores nothing after index 36.
C19_BufferGuard ==
    \A t \in Threads :
        Formatted(t)
            => /\ buf_size < 37
                     => /\ str_rv = "NULL"
                        /\ \A k \in 1..buf_size : buf[k] = 0
                        /\ buf_size >= 1 => buf[1] = 0
                        /\ \A k \in (buf_size + 1)..BufCells :
                              buf[k] = JunkBuf[k]
               /\ buf_size >= 37
                     => \A k \in 38..BufCells : buf[k] = JunkBuf[k]

\* C19 witness: the call of check_to_string with 7 bytes has failed, and
\* the eighth byte of the array is as it was.
C19_Witness ==
    \E t \in Threads :
        /\ Formatted(t) /\ buf_size = 7 /\ str_rv = "NULL"
        /\ \A k \in 1..7 : buf[k] = 0
        /\ buf[8] = JunkBuf[8]

\* The functions uuid7.c defines with external linkage (uuid7.h declares all
\* but uuid7_reset and uuid7_next), with what each takes and gives.
Api ==
    { [name |-> "uuid7",               takes |-> "nothing", gives |-> "bytes"],
      [name |-> "uuid7_to_string",     takes |-> "bytes",   gives |-> "string"],
      [name |-> "uuid7_parts",         takes |-> "bytes",   gives |-> "fields"],
      [name |-> "uuid7_mutex_init",    takes |-> "nothing", gives |-> "int"],
      [name |-> "uuid7_mutex_destroy", takes |-> "nothing", gives |-> "nothing"],
      [name |-> "uuid7_reset",         takes |-> "nothing", gives |-> "nothing"],
      [name |-> "uuid7_next",          takes |-> "fields",  gives |-> "bytes"] }

\* The value of a lower-case hex digit, -1 for any other character.
HexValue(c) ==
    IF c \in 48..57 THEN c - 48
    ELSE IF c \in 97..102 THEN (c - 97) + 10
    ELSE -1

\* The 16 bytes that the hex digits of a string of 36 characters denote.
HexBytes(str) ==
    LET d == SelectSeq(str, LAMBDA c : c # 45)
    IN  IF Len(d) # 32 THEN <<>>
        ELSE [i \in 1..16 |->
                 (16 * HexValue(d[(2 * i) - 1])) + HexValue(d[2 * i])]

MaxCalls == 1

\* Where the loader may put the uuid7_last of the two threads: far apart;
\* 0x00007F3A12C456F0 and 0x00007F3A12C436F0, which differ in the low 16
\* bits only; 0x00007F3A12C456F0 and 0x00007F3B12C556F0, which differ in
\* bit 16 and in bit 32.
AddrLayouts ==
    { LastAddr,
      [t \in Threads |->
          IF t = 1 THEN <<240, 86, 196, 18, 58, 127, 0, 0>>
          ELSE <<240, 54, 196, 18, 58, 127, 0, 0>>],
      [t \in Threads |->
          IF t = 1 THEN <<240, 86, 196, 18, 58, 127, 0, 0>>
          ELSE <<240, 86, 197, 18, 59, 127, 0, 0>>] }

\* The time and the random draw of the calls that came before.
SeasonTime == [tv_sec |-> W64(1711030306), tv_nsec |-> 999999936]

SeasonRandom == <<0, 1, 0, 0, 1, 0, 0, 0>>

\* The Last-Issued State of a scope after 256 calls that read SeasonTime
\* and SeasonRandom: the counter stands at 255.
SeasonedLast(m, addr) ==
    [Encode(SeasonTime, SegmentOf(m, SeasonRandom, addr),
            rand32(SeasonRandom)) EXCEPT ![10] = 255]

\* The address the owner of a scope computes its segment from.
ScopeAddr(layout, sc) == IF sc \in Threads THEN layout[sc] ELSE layout[1]

\* The threads have been created and no call has begun; the scopes in
\* seasoned have been through 256 calls, the others are untouched.
ThreadsIdle(seasoned) ==
    /\ uuid7_mutex = 0
    /\ uuid7_last =
          [sc \in Scopes |->
              IF sc \in seasoned
              THEN SeasonedLast(mode, ScopeAddr(uuid7_last_addr, sc))
              ELSE Zero16]
    /\ issued_max =
          [sc \in Scopes |->
              IF sc \in seasoned
              THEN SeasonedLast(mode, ScopeAddr(uuid7_last_addr, sc))
              ELSE <<>>]
    /\ streak = [sc \in Scopes |-> IF sc \in seasoned THEN 256 ELSE 0]
    /\ pc = [t \in Threads |-> "idle"]
    /\ ts = [t \in Threads |-> NoTime]
    /\ time_rc = [t \in Threads |-> 0]
    /\ random_bytes = [t \in Threads |-> NoRandom]
    /\ rndbytes = [t \in Threads |-> 0]
    /\ ubuf = [t \in Threads |-> Junk16]
    /\ cmp = [t \in Threads |-> 0]
    /\ success = [t \in Threads |-> 0]
    /\ rv = [t \in Threads |-> "none"]
    /\ outcome = [t \in Threads |-> "none"]
    /\ prev = [t \in Threads |-> "none"]
    /\ visited = [t \in Threads |-> {}]
    /\ last_at_call = [t \in Threads |-> Zero16]
    /\ segment = 0
    /\ last_issued = Zero16
    /\ parts = NoParts
    /\ parts_rv = "none"
    /\ buf = NoBuf
    /\ buf_size = 0
    /\ str_rv = "none"
    /\ earlier = NoTime
    /\ budget = [t \in Threads |-> MaxCalls]

\* The build with UUID7_WITH_MUTEX: main has called uuid7_mutex_init with
\* success, or has not called it, before creating the threads.
InitMutex ==
    /\ mode = "mutex"
    /\ uuid7_mutex_initd \in BOOLEAN
    /\ uuid7_last_addr = LastAddr
    /\ \E seasoned \in {{}, {0}} : ThreadsIdle(seasoned)

\* The build with a thread_local uuid7_last.
InitLocal ==
    /\ mode = "thread_local"
    /\ uuid7_mutex_initd = FALSE
    /\ uuid7_last_addr \in AddrLayouts
    /\ \E seasoned \in {{}, {MainThread}} : ThreadsIdle(seasoned)

\* A step of thread t inside uuid7 or uuid7_reset.
ThreadStep(t) ==
    \/ Call(t)
    \/ GetTime(t)
    \/ GetRandom(t)
    \/ Lock(t)
    \/ Merge(t)
    \/ Commit(t)
    \/ Unlock(t)
    \/ Return(t)
    \/ ResetLock(t)
    \/ ResetZero(t)
    \/ ResetUnlock(t)

NextThreads == \E t \in Threads : ThreadStep(t)

SpecMutex == InitMutex /\ [][NextThreads]_vars

SpecLocal == InitLocal /\ [][NextThreads]_vars

(***************************************************************************)
(* Properties of the threads.                                              *)
(***************************************************************************)
\* Thread t is about to compare against, copy into or zero its
\* Last-Issued State.
Touching(t) == pc[t] \in {"merge", "commit", "reset_zero"}

\* Every thread touching the state holds the mutex, and at most one does.
UnderLock ==
    /\ \A t \in Threads : Touching(t) => uuid7_mutex = t
    /\ Cardinality({t \in Threads : Touching(t)}) <= 1

C14_TotalOrder ==
    [][(mode = "mutex" /\ uuid7_mutex_initd)
          => \A t \in Threads :
                /\ (pc[t] = "commit" /\ issued_max[0] # <<>>)
                      => Less16(issued_max[0], ubuf[t])
                /\ (pc[t] = "unlock" /\ rv'[t] = "ubuf")
                      => /\ ubuf'[t] = ubuf[t]
                         /\ ubuf[t] = uuid7_last[0]
                         /\ ubuf[t] = issued_max[0]]_vars

\* C14 witness: two threads read the same time; one has returned the
\* identifier with counter n, the other has committed the one with n + 1.
C14_Witness ==
    \E t, o \in Threads :
        /\ mode = "mutex" /\ uuid7_mutex_initd
        /\ t # o
        /\ Returned(o) /\ rv[o] = "ubuf"
        /\ pc[t] = "unlock" /\ success[t] = 1
        /\ ts[t] = ts[o]
        /\ PrefixEq(ubuf[o], ubuf[t])
        /\ loseq(ubuf[t]) = loseq(ubuf[o]) + 1

\* C15: with a thread_local state, a step of one thread leaves the state of
\* every other thread as it is; an identifier a thread commits is strictly
\* greater than every identifier that thread committed since its last
\* reset; and a call that reached the comparison fails exactly when its own
\* candidate sorts before, or exhausts the counter of, the state its own
\* thread had when the call began, which is then still the thread's state.
C15_Isolation ==
    [][mode = "thread_local"
          => \A t \in Threads :
                /\ pc'[t] # pc[t]
                      => \A o \in Threads \ {t} :
                            uuid7_last'[Scope(o)] = uuid7_last[Scope(o)]
                /\ (pc[t] = "commit" /\ issued_max[Scope(t)] # <<>>)
                      => Less16(issued_max[Scope(t)], ubuf[t])
                /\ (Returned(t) /\ Compared(t))
                      => (rv[t] = "NULL"
                             <=> \/ PrefixLess(Cand(t), last_at_call[t])
                                 \/ Exhausted(last_at_call[t], Cand(t)))
                /\ (Returned(t) /\ rv[t] = "NULL")
                      => uuid7_last[Scope(t)] = last_at_call[t]]_vars

\* C15 witness: two threads read the same time; the call of one failed of
\* exhaustion, the call of the other succeeded.
C15_Witness ==
    \E t, o \in Threads :
        /\ mode = "thread_local" /\ t # o
        /\ Returned(t) /\ outcome[t] = "exhaust" /\ rv[t] = "NULL"
        /\ Returned(o) /\ rv[o] = "ubuf"
        /\ ts[t] = ts[o]

\* The 16-bit groups of an address above the lowest, folded by exclusive or.
HighFold(addr) ==
    Xor16(Xor16(BitsW(addr, 16, 16), BitsW(addr, 32, 16), 16),
          BitsW(addr, 48, 16), 16)

\* The segment bytes of an identifier.
SegmentBytes(b) == <<b[11], b[12]>>

\* Two threads have each returned an identifier.
BothReturned(t, o) ==
    /\ t # o
    /\ Returned(t) /\ rv[t] = "ubuf"
    /\ Returned(o) /\ rv[o] = "ubuf"

\* C16 as claimed: two threads whose states live at different addresses get
\* different segments, and their identifiers are never the same 16 bytes.
C16_DistinctSegmentsAsClaimed ==
    mode = "thread_local"
        => \A t, o \in Threads :
              (BothReturned(t, o)
                   /\ uuid7_last_addr[t] # uuid7_last_addr[o])
                  => /\ SegmentBytes(ubuf[t]) # SegmentBytes(ubuf[o])
                     /\ ubuf[t] # ubuf[o]

\* C16 amended: two threads whose addresses differ in the exclusive or of
\* their 16-bit groups above the lowest get different segments, and their
\* identifiers are never the same 16 bytes.
C16_DistinctSegments ==
    mode = "thread_local"
        => \A t, o \in Threads :
              (BothReturned(t, o)
                   /\ HighFold(uuid7_last_addr[t]) # HighFold(uuid7_last_addr[o]))
                  => /\ SegmentBytes(ubuf[t]) # SegmentBytes(ubuf[o])
                     /\ ubuf[t] # ubuf[o]

\* C16 witness: two threads read the same time and the same random bytes;
\* their identifiers differ in the segment and nowhere else.
C16_Witness ==
    \E t, o \in Threads :
        /\ mode = "thread_local"
        /\ BothReturned(t, o)
        /\ HighFold(uuid7_last_addr[t]) # HighFold(uuid7_last_addr[o])
        /\ SegmentBytes(ubuf[t]) # SegmentBytes(ubuf[o])
        /\ \A i \in (1..16) \ {11, 12} : ubuf[t][i] = ubuf[o][i]

(***************************************************************************)
(* Properties of consecutive identifiers, as check_sortable reads them.    *)
(***************************************************************************)
\* a < b on 64-bit quantities.
Less64(a, b) ==
    \E i \in 1..8 : a[i] < b[i] /\ \A j \in (i + 1)..8 : a[j] = b[j]

\* check_sortable: tv_sec = tmp.seconds, tv_nsec = (hifrac << 18)
\* | (lofrac << 6) | hiseq, of the parts of an identifier.
DecodedTime(b) ==
    [tv_sec |-> uuid7_parts(b).u.seconds,
     tv_nsec |-> uuid7_nanos(uuid7_parts(b).u)]

\* elapsed_timespec(a, b) > 0.0 and elapsed_timespec(a, b) == 0.0
Elapsed(a, b) ==
    \/ Less64(a.tv_sec, b.tv_sec)
    \/ (a.tv_sec = b.tv_sec /\ a.tv_nsec < b.tv_nsec)

NoneElapsed(a, b) == a.tv_sec = b.tv_sec /\ a.tv_nsec = b.tv_nsec

\* The call of thread t succeeded on a state that held an identifier: the
\* state at the call is the identifier of the scope's previous success, and
\* no reset came between the two.
Consecutive(t) ==
    /\ Returned(t) /\ rv[t] = "ubuf"
    /\ last_at_call[t] # Zero16

\* The 6 bytes after loseq: segment and random value as stored.
TailBytes(b) == SubSeq(b, 11, 16)

SourceFailed(t) ==
    \/ ("gettime" \in visited[t] /\ time_rc[t] # 0)
    \/ ("getrandom" \in visited[t] /\ rndbytes[t] # 8)

\* C22: in the build with the mutex, a thread that is reading the time or
\* the random bytes does not hold the mutex; a thread that asks for the
\* mutex, or holds it inside uuid7, has read both with success; and a call
\* whose time or random read failed has not asked for the mutex and does
\* not hold it.
C22_LockScope ==
    mode = "mutex"
        => \A t \in Threads :
              /\ pc[t] \in {"gettime", "getrandom"} => uuid7_mutex # t
              /\ pc[t] \in {"lock", "merge", "commit", "unlock"}
                    => /\ {"gettime", "getrandom"} \subseteq visited[t]
                       /\ time_rc[t] = 0
                       /\ rndbytes[t] = 8
              /\ SourceFailed(t)
                    => /\ "lock" \notin visited[t]
                       /\ pc[t] \notin {"lock", "merge", "commit", "unlock"}
                       /\ uuid7_mutex # t

\* C22 witness: one thread holds the mutex at the comparison while the call
\* of the other has returned from a short read of the random bytes.
C22_Witness ==
    \E t, o \in Threads :
        /\ mode = "mutex" /\ uuid7_mutex_initd
        /\ pc[t] = "merge" /\ uuid7_mutex = t
        /\ Returned(o) /\ outcome[o] = "random" /\ rndbytes[o] = 4
        /\ "lock" \notin visited[o]

(***************************************************************************)
(* Progress.  A thread that is inside uuid7 or uuid7_reset keeps running:  *)
(* the scheduler does not starve it for ever.  Whether a caller begins     *)
(* another call is up to the caller.                                       *)
(***************************************************************************)
\* A step of thread t inside a call it has begun.
Running(t) ==
    \/ GetTime(t)
    \/ GetRandom(t)
    \/ Lock(t)
    \/ Merge(t)
    \/ Commit(t)
    \/ Unlock(t)
    \/ ResetZero(t)
    \/ ResetUnlock(t)

\* main has called uuid7_mutex_init with success.
InitMutexReady == InitMutex /\ uuid7_mutex_initd

SpecMutexFair ==
    /\ InitMutexReady
    /\ [][NextThreads]_vars
    /\ \A t \in Threads : WF_vars(Running(t))

\* The order of the statements of uuid7 and uuid7_reset: from every place,
\* the places control can go to next.
Forward ==
    { <<"idle", "gettime">>, <<"gettime", "getrandom">>,
      <<"gettime", "returned">>, <<"getrandom", "lock">>,
      <<"getrandom", "returned">>, <<"lock", "merge">>,
      <<"merge", "commit">>, <<"merge", "unlock">>, <<"commit", "unlock">>,
      <<"unlock", "returned">>, <<"returned", "idle">>,
      <<"idle", "reset_zero">>, <<"reset_zero", "reset_unlock">>,
      <<"reset_unlock", "idle">> }

\* Thread t is inside a call that has not returned.
InCall(t) == pc[t] \notin {"idle", "returned"}

\* C23: control only moves forward through a call, so the comparison is
\* made at most once; a regression or an exhaustion goes from the
\* comparison straight to the unlock and the call returns NULL; a thread
\* that has returned holds no mutex; some thread can take a step as long as
\* a call is in progress; and every call in progress returns.
C23_AlwaysReturns ==
    /\ [][\A t \in Threads :
             /\ pc'[t] # pc[t] => <<pc[t], pc'[t]>> \in Forward
             /\ (pc[t] = "merge" /\ outcome'[t] \in {"regress", "exhaust"})
                   => pc'[t] = "unlock"
             /\ (pc[t] = "unlock" /\ pc'[t] # pc[t]
                     /\ outcome[t] \in {"regress", "exhaust"})
                   => rv'[t] = "NULL"]_vars
    /\ [](\A t \in Threads : ~InCall(t) => uuid7_mutex # t)
    /\ []((\E t \in Threads : InCall(t)) => ENABLED NextThreads)
    /\ \A t \in Threads : InCall(t) ~> ~InCall(t)

\* C23 witness: a thread waits for the mutex that the other holds on its
\* way out of a call that failed of exhaustion.
C23_Witness ==
    \E t, o \in Threads :
        /\ mode = "mutex" /\ uuid7_mutex_initd
        /\ pc[t] = "lock"
        /\ pc[o] = "unlock" /\ outcome[o] = "exhaust" /\ uuid7_mutex = o

(***************************************************************************)
(* Two calls of uuid7_next on one Last-Issued State, as the tests make     *)
(* them: the caller holds the state (check_parts), gives a time, a segment *)
(* and random bytes of its choice, may clear the state between calls       *)
(* (memset(last, 0x00, 16)), and may try a failed call once more with the  *)
(* same arguments (uuid7_task_thread_func).                                *)
(***************************************************************************)
\* time_t values on both sides of 2^36: 0, 1711030306, 2^36 - 1, 2^36 and
\* 2^36 + 1711030306.
PairSeconds ==
    { W64(0),
      W64(1711030306),
      <<255, 255, 255, 255, 15, 0, 0, 0>>,
      <<0, 0, 0, 0, 16, 0, 0, 0>>,
      [W64(1711030306) EXCEPT ![5] = 16] }

\* Nanoseconds on both sides of the bits 6 and 18, bit 12 alone, and the two
\* ends.
PairNanos == {0, 63, 64, 4096, 262143, 262144, 999999999}

PairTimes ==
    { [tv_sec |-> sec, tv_nsec |-> ns] : sec \in PairSeconds,
                                         ns \in PairNanos }

\* uint16_t segment: 0x0102, 0x8001.
PairSegments == {258, 32769}

\* uint32_t random_bytes: 0x04030201, 0x80000001.
PairRandoms ==
    { <<1, 2, 3, 4, 0, 0, 0, 0>>,
      <<1, 0, 0, 128, 0, 0, 0, 0>> }

InitPair ==
    /\ mode = "no_threads"
    /\ uuid7_mutex_initd = FALSE
    /\ uuid7_mutex = 0
    /\ uuid7_last = [sc \in Scopes |-> Zero16]
    /\ uuid7_last_addr = LastAddr
    /\ time_rc = [t \in Threads |-> 0]
    /\ rndbytes = [t \in Threads |-> 0]
    /\ cmp = [t \in Threads |-> 0]
    /\ success = [t \in Threads |-> 0]
    /\ rv = [t \in Threads |-> "none"]
    /\ outcome = [t \in Threads |-> "none"]
    /\ prev = [t \in Threads |-> "none"]
    /\ visited = [t \in Threads |-> {}]
    /\ streak = [sc \in Scopes |-> 0]
    /\ last_at_call = [t \in Threads |-> Zero16]
    /\ issued_max = [sc \in Scopes |-> <<>>]
    /\ last_issued = Zero16
    /\ parts = NoParts
    /\ parts_rv = "none"
    /\ buf = NoBuf
    /\ buf_size = 0
    /\ str_rv = "none"
    /\ earlier = NoTime
    /\ budget = [t \in Threads |-> Unbounded]
    /\ pc = [t \in Threads |-> IF t = MainThread THEN "next" ELSE "idle"]
    /\ \E tm \in PairTimes :
          ts = [t \in Threads |-> IF t = MainThread THEN tm ELSE NoTime]
    /\ segment \in PairSegments
    /\ \E rb \in PairRandoms :
          random_bytes =
              [t \in Threads |-> IF t = MainThread THEN rb ELSE NoRandom]
    /\ ubuf = [t \in Threads |-> Junk16]

\* The caller sets up the second call: new arguments, memset(ubuf, '?', 16).
Again(t) ==
    /\ pc[t] \in {"parts", "cleared"}
    /\ "again" \notin visited[t]
    /\ visited' = [visited EXCEPT ![t] = {"again"}]
    /\ earlier' = ts[t]
    /\ \E tm \in PairTimes : ts' = [ts EXCEPT ![t] = tm]
    /\ segment' \in PairSegments
    /\ \E rb \in PairRandoms :
          random_bytes' = [random_bytes EXCEPT ![t] = rb]
    /\ ubuf' = [ubuf EXCEPT ![t] = Junk16]
    /\ last_at_call' = [last_at_call EXCEPT ![t] = last_issued]
    /\ prev' = [prev EXCEPT ![t] = outcome[t]]
    /\ pc' = [pc EXCEPT ![t] = "next"]
    /\ UNCHANGED <<mode, uuid7_mutex_initd, uuid7_mutex, uuid7_last,
                   uuid7_last_addr, time_rc, rndbytes, cmp, success, rv,
                   outcome, streak, issued_max, last_issued, parts, parts_rv,
                   buf, buf_size, str_rv, budget>>

\* memset(last, 0x00, 16), by the caller that holds the state.
ClearLast(t) ==
    /\ pc[t] = "parts"
    /\ last_issued' = Zeroed(last_issued)
    /\ pc' = [pc EXCEPT ![t] = "cleared"]
    /\ UNCHANGED <<mode, uuid7_mutex_initd, uuid7_mutex, uuid7_last,
                   uuid7_last_addr, ts, time_rc, random_bytes, rndbytes, ubuf,
                   cmp, success, rv, outcome, prev, visited, streak,
                   last_at_call, issued_max, segment, parts, parts_rv, buf,
                   buf_size, str_rv, earlier, budget>>

\* for (j = 0; !rv && j < max_tries; ++j): the second call has failed and
\* the caller makes it once more, with the same arguments and buffer.
Retry(t) ==
    /\ pc[t] \in {"parts", "cleared"}
    /\ visited[t] = {"again", "next"}
    /\ rv[t] = "NULL"
    /\ visited' = [visited EXCEPT ![t] = {"again", "retry"}]
    /\ last_at_call' = [last_at_call EXCEPT ![t] = last_issued]
    /\ prev' = [prev EXCEPT ![t] = outcome[t]]
    /\ pc' = [pc EXCEPT ![t] = "next"]
    /\ UNCHANGED <<mode, uuid7_mutex_initd, uuid7_mutex, uuid7_last,
                   uuid7_last_addr, ts, time_rc, random_bytes, rndbytes, ubuf,
                   cmp, success, rv, outcome, streak, issued_max, segment,
                   last_issued, parts, parts_rv, buf, buf_size, str_rv,
                   earlier, budget>>

NextPair ==
    \/ Uuid7Next(MainThread)
    \/ Again(MainThread)
    \/ ClearLast(MainThread)
    \/ Retry(MainThread)

SpecPair == InitPair /\ [][NextPair]_vars

(***************************************************************************)
(* Properties of the encoding of the time.                                 *)
(***************************************************************************)
\* A time with seconds in 0 .. 2^36 - 1 and nanoseconds in 0 .. 999999999.
ValidTime(tp) ==
    /\ tp.tv_sec[5] < 16
    /\ \A i \in 6..8 : tp.tv_sec[i] = 0
    /\ tp.tv_nsec \in 0..999999999

\* The call of uuid7_next that thread t set up as its second has returned,
\* and the state it found held the identifier of the first.
Second(t) ==
    /\ pc[t] = "parts"
    /\ visited[t] = {"again", "next"}
    /\ last_at_call[t] # Zero16

\* The first 9 bytes of a buffer.
Prefix(b) == SubSeq(b, 1, 9)

\* C24: for two valid times, the prefix of the first encoding is bytewise
\* less than the prefix of the second exactly when the first time is the
\* earlier one, the prefixes are equal exactly when the times are, the
\* comparison uuid7_next makes has that result, and each prefix is the
\* prefix the same time gives with any other segment and random value.
C24_TimeOrder ==
    \A t \in Threads :
        (Second(t) /\ ValidTime(earlier) /\ ValidTime(ts[t]))
            => LET a == last_at_call[t]
                   b == Encode(ts[t], segment, rand32(random_bytes[t]))
               IN  /\ Elapsed(earlier, ts[t]) <=> memcmp(a, b, 9) < 0
                   /\ NoneElapsed(earlier, ts[t]) <=> memcmp(a, b, 9) = 0
                   /\ Elapsed(ts[t], earlier) <=> memcmp(a, b, 9) > 0
                   /\ cmp[t] = memcmp(a, b, 9)
                   /\ Prefix(a) = Prefix(Encode(earlier, 0, W64(0)))
                   /\ \A sg \in PairSegments, rb \in PairRandoms :
                         Prefix(b) = Prefix(Encode(ts[t], sg, rb))

\* C24 witness: two times of one second, 262143 and 262144 nanoseconds; the
\* later identifier has the greater prefix and the smaller tail.
C24_Witness ==
    \E t \in Threads :
        /\ Second(t) /\ ValidTime(earlier) /\ ValidTime(ts[t])
        /\ earlier.tv_sec = ts[t].tv_sec
        /\ earlier.tv_nsec = 262143 /\ ts[t].tv_nsec = 262144
        /\ rv[t] = "ubuf" /\ cmp[t] < 0
        /\ memcmp(TailBytes(ubuf[t]), TailBytes(last_at_call[t]), 6) < 0

\* x modulo 2^36, of a 64-bit quantity.
Low36(x) ==
    [i \in 1..8 |-> IF i <= 4 THEN BitsW(x, 8 * (i - 1), 8)
                    ELSE IF i = 5 THEN BitsW(x, 32, 4)
                    ELSE 0]

\* C25: the seconds of an identifier are tv_sec modulo 2^36; a call whose
\* tv_sec modulo 2^36 is less than the seconds of the state fails as a
\* clock regression and leaves the state; tried again it fails again; and
\* tried again on the cleared state it succeeds.
C25_SecondsTruncated ==
    \A t \in Threads :
        (pc[t] = "parts" /\ "next" \in visited[t])
            => /\ rv[t] = "ubuf"
                     => uuid7_parts(ubuf[t]).u.seconds = Low36(ts[t].tv_sec)
               /\ (last_at_call[t] # Zero16
                      /\ Less64(Low36(ts[t].tv_sec),
                                uuid7_parts(last_at_call[t]).u.seconds))
                     => /\ rv[t] = "NULL"
                        /\ outcome[t] = "regress"
                        /\ last_issued = last_at_call[t]
               /\ ("retry" \in visited[t] /\ last_at_call[t] = Zero16)
                     => rv[t] = "ubuf"

\* C25 witness: after seconds 2^36 - 1 a call with seconds 2^36 failed as a
\* regression; after the state was cleared the same call succeeded, with
\* seconds 0.
C25_Witness ==
    \E t \in Threads :
        /\ pc[t] = "parts" /\ visited[t] = {"again", "retry", "next"}
        /\ earlier.tv_sec = <<255, 255, 255, 255, 15, 0, 0, 0>>
        /\ ts[t].tv_sec = <<0, 0, 0, 0, 16, 0, 0, 0>>
        /\ prev[t] = "regress"
        /\ last_at_call[t] = Zero16
        /\ rv[t] = "ubuf"
        /\ uuid7_parts(ubuf[t]).u.seconds = W64(0)

(***************************************************************************)
(* The threads under a clock that never goes backward: every time the      *)
(* source delivers is at or after every time it delivered before, as far   *)
(* as the state still shows them (the times of the calls in progress and   *)
(* the time of the Last-Issued State).                                     *)
(***************************************************************************)
\* Thread t holds a time it has read.
Sampled(t) == "gettime" \in visited[t] /\ time_rc[t] = 0

\* The time thread t reads in this step, if it reads one, is not earlier
\* than a time read before.
MonotoneSample(t) ==
    (pc'[t] = "getrandom")
        => /\ \A o \in Threads \ {t} :
                 Sampled(o) => ~Elapsed(ts'[t], ts[o])
           /\ \A sc \in Scopes :
                 uuid7_last[sc] # Zero16
                     => ~Elapsed(ts'[t], DecodedTime(uuid7_last[sc]))

ClockGetTime(t) == GetTime(t) /\ MonotoneSample(t)

ThreadStepClock(t) ==
    \/ Call(t)
    \/ ClockGetTime(t)
    \/ GetRandom(t)
    \/ Lock(t)
    \/ Merge(t)
    \/ Commit(t)
    \/ Unlock(t)
    \/ Return(t)
    \/ ResetLock(t)
    \/ ResetZero(t)
    \/ ResetUnlock(t)

NextClock == \E t \in Threads : ThreadStepClock(t)

SpecMutexClock == InitMutexReady /\ [][NextClock]_vars

\* C26: with the mutex initialised, a call that reaches the comparison with
\* a candidate whose prefix sorts before the prefix of the state goes to the
\* unlock without touching the state and returns NULL with its buffer
\* zeroed, whatever the state was when the call began; and a call commits
\* only an identifier strictly greater than the state.
C26_StaleTime ==
    [][\A t \in Threads :
          pc'[t] # pc[t]
              => /\ (pc[t] = "merge" /\ PrefixLess(ubuf[t], uuid7_last[0]))
                       => /\ pc'[t] = "unlock"
                          /\ outcome'[t] = "regress"
                          /\ uuid7_last' = uuid7_last
                 /\ (pc[t] = "unlock" /\ outcome[t] = "regress")
                       => /\ rv'[t] = "NULL"
                          /\ ubuf'[t] = Zero16
                          /\ uuid7_last' = uuid7_last
                 /\ pc[t] = "commit" => Less16(uuid7_last[0], ubuf[t])]_vars

\* C26 witness: under the clock that never goes backward, a call that read
\* the earlier time has failed as a regression against the identifier that
\* the other thread, which read the later time, committed after the call
\* began.
C26_Witness ==
    \E t, o \in Threads :
        /\ t # o
        /\ Returned(t) /\ outcome[t] = "regress" /\ rv[t] = "NULL"
        /\ ubuf[t] = Zero16
        /\ Sampled(t) /\ Sampled(o)
        /\ Elapsed(ts[t], ts[o])
        /\ Returned(o) /\ rv[o] = "ubuf"
        /\ uuid7_last[0] = ubuf[o]
        /\ uuid7_last[0] # last_at_call[t]
        /\ ~PrefixLess(Cand(t), last_at_call[t])

(***************************************************************************)
(* The threads while uuid7_mutex_init and uuid7_mutex_destroy are called:  *)
(* no thread has initialised the mutex when the threads start, and every   *)
(* thread may call either function between its calls of uuid7 and          *)
(* uuid7_reset.                                                            *)
(***************************************************************************)
InitRace ==
    /\ mode = "mutex"
    /\ uuid7_mutex_initd = FALSE
    /\ uuid7_last_addr = LastAddr
    /\ ThreadsIdle({})

NextRace == \E t \in Threads : Step(t)

SpecRace == InitRace /\ [][NextRace]_vars

\* C27 as claimed: the step of a call that stands at its unlock unlocks the
\* mutex exactly when the call holds it, and a thread outside a call holds
\* no mutex.
C27_LockPairingAsClaimed ==
    [][\A t \in Threads :
          /\ (pc[t] \in {"unlock", "reset_unlock"} /\ pc'[t] # pc[t])
                => (uuid7_mutex_initd <=> uuid7_mutex = t)
          /\ pc'[t] \in {"idle", "returned"} => uuid7_mutex' # t]_vars

\* C27: a state in which the claim fails: a call that took no lock, the
\* flag having been false, stands at its unlock with the flag true, while
\* the other thread holds the mutex inside its own call.
C27_UnlockNotHeld ==
    \E t, o \in Threads :
        /\ pc[t] \in {"unlock", "reset_unlock"}
        /\ uuid7_mutex_initd
        /\ uuid7_mutex = o /\ o # t
        /\ pc[o] \in {"merge", "commit"}

(***************************************************************************)
(* Properties of the Last-Issued State.                                    *)
(***************************************************************************)
\* C28: when a call returns its buffer, the state of its scope is equal to
\* the buffer in all 16 bytes; and a step that changes the state of a scope
\* is the memcpy of a call of that scope that goes on to succeed, or the
\* memset of a uuid7_reset of that scope.
C28_CommitOnSuccess ==
    [][/\ \A t \in Threads :
             (pc[t] # "returned" /\ pc'[t] = "returned" /\ rv'[t] = "ubuf")
                 => uuid7_last'[Scope(t)] = ubuf'[t]
       /\ \A sc \in Scopes :
             uuid7_last'[sc] # uuid7_last[sc]
                 => \E t \in Threads :
                       /\ Scope(t) = sc
                       /\ \/ /\ pc[t] = "commit"
                             /\ success'[t] = 1
                             /\ uuid7_last'[sc] = ubuf[t]
                          \/ /\ pc[t] = "reset_zero"
                             /\ uuid7_last'[sc] = Zero16]_vars

\* C28 witness: a call that found an identifier in the state returned one
\* with the same prefix, a greater loseq and another tail, and the state
\* holds it.
C28_Witness ==
    \E t \in Threads :
        /\ Returned(t) /\ rv[t] = "ubuf"
        /\ uuid7_last[Scope(t)] = ubuf[t]
        /\ PrefixEq(last_at_call[t], ubuf[t])
        /\ loseq(last_at_call[t]) < loseq(ubuf[t])
        /\ TailBytes(last_at_call[t]) # TailBytes(ubuf[t])

\* C29: the state of every scope is all zero, or it is an identifier that
\* uuid7_parts accepts, with version 7 and variant 1.
C29_StateShape ==
    \A sc \in Scopes :
        \/ uuid7_last[sc] = Zero16
        \/ /\ PartsValid(uuid_ver(uuid7_last[sc]), uuid_var(uuid7_last[sc]))
           /\ uuid_ver(uuid7_last[sc]) = 7
           /\ uuid_var(uuid7_last[sc]) = 1

\* C29 witness: a uuid7_reset has zeroed a state that held an identifier,
\* after a call that failed.
C29_Witness ==
    \E t \in Threads :
        /\ pc[t] = "reset_unlock"
        /\ prev[t] \in {"regress", "exhaust"}
        /\ uuid7_last[Scope(t)] = Zero16
        /\ issued_max[Scope(t)] = <<>>
        /\ streak[Scope(t)] = 0

\* C30: a successful call that finds the state at loseq 255 and encodes the
\* prefix of the state returns loseq 255 and a strictly greater tail; a
\* successful call that encodes the prefix of the state never returns
\* loseq 0; and a successful call returns loseq 0 only with a prefix greater
\* than the prefix of the state, which after a reset is the zero prefix.
C30_NoWrap ==
    \A t \in Threads :
        (Returned(t) /\ rv[t] = "ubuf")
            => /\ (PrefixEq(last_at_call[t], ubuf[t])
                      /\ loseq(last_at_call[t]) = 255)
                     => /\ loseq(ubuf[t]) = 255
                        /\ memcmp(TailBytes(last_at_call[t]),
                                  TailBytes(ubuf[t]), 6) < 0
               /\ PrefixEq(last_at_call[t], ubuf[t]) => loseq(ubuf[t]) > 0
               /\ loseq(ubuf[t]) = 0 => PrefixLess(last_at_call[t], ubuf[t])
               /\ loseq(uuid7_last[Scope(t)]) = loseq(ubuf[t])

\* C30 witness: the 257th call on one prefix succeeded with loseq 255 on
\* the strength of a greater tail.
C30_Witness ==
    \E t \in Threads :
        /\ Returned(t) /\ rv[t] = "ubuf"
        /\ streak[Scope(t)] = 257
        /\ PrefixEq(last_at_call[t], ubuf[t])
        /\ loseq(last_at_call[t]) = 255 /\ loseq(ubuf[t]) = 255
        /\ memcmp(TailBytes(last_at_call[t]), TailBytes(ubuf[t]), 6) < 0

(***************************************************************************)
(* The segment of each build, as the identifiers of uuid7 carry it.        *)
(***************************************************************************)
\* C31: in an identifier that uuid7 returns, the mutex build and the
\* build without threads store bits 32..47 of the one 64-bit random draw as
\* the segment and bits 0..31 of that draw as the random tail; the
\* thread_local build stores the fold of the address of the thread's
\* uuid7_last as the segment, whatever was drawn, and the same segment as in
\* the identifier the thread produced before.
C31_SegmentPerMode ==
    \A t \in Threads :
        (Returned(t) /\ rv[t] = "ubuf")
            => /\ PartsRand(ubuf[t]) = rand32(random_bytes[t])
               /\ mode # "thread_local"
                     => PartsSegment(ubuf[t])
                            = BitsW(random_bytes[t], 32, 16)
               /\ mode = "thread_local"
                     => /\ PartsSegment(ubuf[t])
                               = AddrFold(uuid7_last_addr[t], 1, 0)
                        /\ Consecutive(t)
                              => PartsSegment(last_at_call[t])
                                     = PartsSegment(ubuf[t])

\* C31 witness: a thread of the thread_local build returned a second
\* identifier whose random tail is not the tail of its first and whose
\* segment is neither bits 32..47 nor bits 0..15 of the draw; or a thread of
\* another build returned a second identifier whose segment and random tail
\* are both not those of the first.
C31_Witness ==
    \E t \in Threads :
        /\ Consecutive(t)
        /\ PartsRand(last_at_call[t]) # PartsRand(ubuf[t])
        /\ \/ /\ mode = "thread_local"
              /\ PartsSegment(ubuf[t]) # BitsW(random_bytes[t], 32, 16)
              /\ PartsSegment(ubuf[t]) # BitsW(random_bytes[t], 0, 16)
              /\ PartsSegment(last_at_call[t]) = PartsSegment(ubuf[t])
           \/ /\ mode # "thread_local"
              /\ PartsSegment(ubuf[t]) = BitsW(random_bytes[t], 32, 16)
              /\ PartsSegment(last_at_call[t]) # PartsSegment(ubuf[t])

====
